---- MODULE Spec2Model ----
(***************************************************************************)
(* The asynchronous request/response protocol of syft_rpc/protocol.py:     *)
(* a SyftFuture is resolved by looking at three files of the synced tree   *)
(* (<id>.request, <id>.response, <id>.syftrejected.request).               *)
(*                                                                         *)
(* Time is one integer clock `now`; it stands for both                     *)
(* datetime.now(timezone.utc) and time.monotonic().                        *)
(***************************************************************************)
EXTENDS Integers, Sequences, FiniteSets, TLC

VARIABLES
    now,            \* the clock
    future,         \* the SyftFuture object: [expires]
    files,          \* the three files of the future: [request, response, rejected]
    pc,             \* where the calling thread is
    timeout,        \* wait / gather_completed argument
    poll_interval,  \* wait / gather_completed argument
    deadline,       \* local variable of wait / gather_completed
    wake,           \* end of the running time.sleep(poll_interval)
    futures,        \* SyftBulkFuture.futures
    pending,        \* local variable of gather_completed
    responses,      \* SyftBulkFuture.responses
    pre,            \* files and clock as the resolve() call just made found them
    ret,            \* what the resolve() call just made returned or raised
    outcome,        \* how the wait / gather_completed call that just ended ended
    unlinked,       \* files the running wait call has deleted so far
    abandoned,      \* the latest wait call on the future raised SyftTimeoutError
    member_files,   \* per member of a bulk future: its response file exists
    subject,        \* two messages, or two bulk futures, whose identities are taken
    idents,         \* the identities just computed for `subject`
    store,          \* the server's file store: path -> content
    tree,           \* a client's local sync folder: path -> entry
    call,           \* the server handler or FileChange call just made
    local_state,    \* the client's sync folder: path -> hash of the file there
    remote_state,   \* the server's copy of the datasites: path -> hash
    loop,           \* where the thread of SyncManager.start is
    datasite_states,\* local variable of run_single_thread, and the place in it
    queue,          \* SyncManager.queue
    iteration,      \* what the running iteration or call has done so far
    threads,        \* how many threads started by SyncManager.start are running
    project,        \* a node's copy of a NewProject: events, event_id_hashmap
    leader,         \* the events of the project on the state sync leader
    adding          \* the add_event call under way on the node, or its result

\* the variables of each part of the model
future_vars == <<now, future, files, pc, timeout, poll_interval, deadline, wake,
                 futures, pending, responses, pre, ret, outcome, unlinked,
                 abandoned>>
identity_vars == <<subject, idents>>
sync_vars == <<store, tree, call>>
manager_vars == <<local_state, remote_state, loop, datasite_states, queue,
                  iteration, threads>>
project_vars == <<project, leader, adding>>

\* what the calls on one future leave alone
beyond_future == <<member_files, identity_vars, sync_vars, manager_vars, project_vars>>

vars == <<now, future, files, pc, timeout, poll_interval, deadline, wake,
          futures, pending, responses, pre, ret, outcome, unlinked, abandoned,
          member_files, subject, idents, store, tree, call, local_state,
          remote_state, loop, datasite_states, queue, iteration, threads, project,
          leader, adding>>

----------------------------------------------------------------------------
\* Bounds of the model.

MaxTime == 2
MaxExpiry == 1
MaxArg == 1
MaxMembers == 1
MaxBulk == 2
MaxData == 1
MaxQueue == 2
MaxStarts == 2

Expiries == 0..MaxExpiry

----------------------------------------------------------------------------
\* SyftStatus and DEFAULT_MESSAGE_EXPIRY.

SYFT_200_OK == 200
SYFT_403_FORBIDDEN == 403
SYFT_404_NOT_FOUND == 404
SYFT_419_EXPIRED == 419
SYFT_500_SERVER_ERROR == 500
DEFAULT_MESSAGE_EXPIRY == 86400

----------------------------------------------------------------------------
\* Values: file contents and what resolve() gives back.

NoFile == [kind |-> "absent"]
Malformed == [kind |-> "malformed"]
None == [kind |-> "None"]

SyftRequest(e) == [kind |-> "request", expires |-> e]

SyftResponse(s, b, snd, e) ==
    [kind |-> "response", status_code |-> s, body |-> b, sender |-> snd, expires |-> e]

Raise(e) == [kind |-> "raise", exc |-> e]

\* A SyftResponse built by resolve() itself: sender "SYSTEM", expires by default_factory.
SystemResponse(s, b, t) == SyftResponse(s, b, "SYSTEM", t + DEFAULT_MESSAGE_EXPIRY)

\* A message body: a text and the value formatted into it (0 when there is none).
Body(text, arg) == [text |-> text, arg |-> arg]

\* variant: expired already at the expiry time
is_expired_at_expiry(msg, t) == t >= msg.expires

\* SyftMessage.is_expired
is_expired(msg, t) == t > msg.expires

\* SyftFuture.is_rejected
is_rejected(fs) == fs.rejected

\* Path.exists()
exists(f) == f # NoFile

\* Base.load succeeds on the file content
loads(f) == f.kind \in {"request", "response"}

----------------------------------------------------------------------------
\* SyftFuture._handle_existing_response: [ret, files]

\* variant: the load error of the response file is not caught
handle_existing_response_raises(fut, fs, t) ==
    LET cleaned == [fs EXCEPT !.request = NoFile, !.response = NoFile]
    IN  IF loads(fs.response)
        THEN [ret |-> IF is_expired(fs.response, t)
                      THEN [fs.response EXCEPT !.status_code = SYFT_419_EXPIRED]
                      ELSE fs.response,
              files |-> cleaned]
        ELSE [ret |-> Raise("ValidationError"), files |-> cleaned]

\* variant: the request file is not unlinked
handle_existing_response_keeps_request(fut, fs, t) ==
    LET cleaned == [fs EXCEPT !.response = NoFile]
    IN  IF loads(fs.response)
        THEN [ret |-> IF is_expired(fs.response, t)
                      THEN [fs.response EXCEPT !.status_code = SYFT_419_EXPIRED]
                      ELSE fs.response,
              files |-> cleaned]
        ELSE [ret |-> SystemResponse(SYFT_500_SERVER_ERROR, Body("load error", 0), t),
              files |-> cleaned]

\* variant: an expired response is replaced by a 419 that resolve() builds
handle_existing_response_fresh_419(fut, fs, t) ==
    LET cleaned == [fs EXCEPT !.request = NoFile, !.response = NoFile]
    IN  IF loads(fs.response)
        THEN [ret |-> IF is_expired(fs.response, t)
                      THEN SystemResponse(SYFT_419_EXPIRED, Body("expired", 0), t)
                      ELSE fs.response,
              files |-> cleaned]
        ELSE [ret |-> SystemResponse(SYFT_500_SERVER_ERROR, Body("load error", 0), t),
              files |-> cleaned]

\* try: load, 419 when expired / except: 500 / finally: unlink both
handle_existing_response(fut, fs, t) ==
    LET cleaned == [fs EXCEPT !.request = NoFile, !.response = NoFile]
    IN  IF loads(fs.response)
        THEN [ret |-> IF is_expired(fs.response, t)
                      THEN [fs.response EXCEPT !.status_code = SYFT_419_EXPIRED]
                      ELSE fs.response,
              files |-> cleaned]
        ELSE [ret |-> SystemResponse(SYFT_500_SERVER_ERROR, Body("load error", 0), t),
              files |-> cleaned]

----------------------------------------------------------------------------
\* SyftFuture.resolve: [ret, files]

\* the branch taken when the rejection marker exists
resolve_rejected(fut, fs, t) ==
    [ret |-> SystemResponse(SYFT_403_FORBIDDEN, Body("rejected", 0), t),
     files |-> [fs EXCEPT !.request = NoFile, !.rejected = FALSE]]

\* variant: a pending resolve unlinks the request file
resolve_no_response_pending_deletes(fut, fs, t) ==
    IF ~exists(fs.request)
    THEN [ret |-> SystemResponse(SYFT_404_NOT_FOUND, Body("not found", 0), t), files |-> fs]
    ELSE IF ~loads(fs.request)
    THEN [ret |-> Raise("ValidationError"), files |-> fs]
    ELSE IF is_expired(fs.request, t)
    THEN [ret |-> SystemResponse(SYFT_419_EXPIRED, Body("expired on", fut.expires), t),
          files |-> [fs EXCEPT !.request = NoFile, !.response = NoFile]]
    ELSE [ret |-> None, files |-> [fs EXCEPT !.request = NoFile]]

\* variant: a missing request file counts as pending
resolve_no_response_missing_is_pending(fut, fs, t) ==
    IF ~exists(fs.request)
    THEN [ret |-> None, files |-> fs]
    ELSE IF ~loads(fs.request)
    THEN [ret |-> Raise("ValidationError"), files |-> fs]
    ELSE IF is_expired(fs.request, t)
    THEN [ret |-> SystemResponse(SYFT_419_EXPIRED, Body("expired on", fut.expires), t),
          files |-> [fs EXCEPT !.request = NoFile, !.response = NoFile]]
    ELSE [ret |-> None, files |-> fs]

\* the branches taken when neither a marker nor a response file exists
resolve_no_response(fut, fs, t) ==
    IF ~exists(fs.request)
    THEN [ret |-> SystemResponse(SYFT_404_NOT_FOUND, Body("not found", 0), t), files |-> fs]
    ELSE IF ~loads(fs.request)
    THEN [ret |-> Raise("ValidationError"), files |-> fs]
    ELSE IF is_expired(fs.request, t)
    THEN [ret |-> SystemResponse(SYFT_419_EXPIRED, Body("expired on", fut.expires), t),
          files |-> [fs EXCEPT !.request = NoFile, !.response = NoFile]]
    ELSE [ret |-> None, files |-> fs]

\* variant: the response file is looked at before the rejection marker
resolve_response_first(fut, fs, t) ==
    IF exists(fs.response) THEN handle_existing_response(fut, fs, t)
    ELSE IF is_rejected(fs) THEN resolve_rejected(fut, fs, t)
    ELSE resolve_no_response(fut, fs, t)

\* rejection first, then the response file, then the request file
resolve(fut, fs, t) ==
    IF is_rejected(fs) THEN resolve_rejected(fut, fs, t)
    ELSE IF exists(fs.response) THEN handle_existing_response(fut, fs, t)
    ELSE resolve_no_response(fut, fs, t)

----------------------------------------------------------------------------
\* The state after construction: a future whose files are not yet written.

NoCall == [kind |-> "nocall"]
NoneT == [some |-> FALSE, val |-> 0]
Some(v) == [some |-> TRUE, val |-> v]
Inf == [inf |-> TRUE, at |-> 0]
At(t) == [inf |-> FALSE, at |-> t]

TimeoutArgs == {NoneT} \cup {Some(v) : v \in -1..MaxArg}
PollArgs == -1..MaxArg
Members == 1..MaxMembers
FutureLists == {<<>>} \cup UNION {[1..n -> Members] : n \in 1..MaxMembers}

\* the bulk futures whose members' files are modelled one by one
BulkMembers == 1..MaxBulk
BulkLists == {<<>>} \cup UNION {[1..n -> BulkMembers] : n \in 1..MaxBulk}
NoResponses == [m \in BulkMembers |-> FALSE]

\* what other actors write
RequestContents == {Malformed} \cup {SyftRequest(e) : e \in Expiries}
ResponseContents ==
    {Malformed} \cup
    {SyftResponse(SYFT_200_OK, Body("payload", 0), "peer", e) : e \in Expiries}

NoSubject == [kind |-> "none"]

\* the name of the permission file of a directory
PERM_FILE == "_.syftperm"

\* paths are sequences of names; the server's snapshot folder holds these
StorePaths ==
    {<<"ds", PERM_FILE>>, <<"ds", "private", PERM_FILE>>, <<"ds", "private", "x">>,
     <<"other", PERM_FILE>>}

\* file contents: plain data, or the JSON of a permission rule
Data(v) == [kind |-> "data", v |-> v]
Rule(a, r, w) == [kind |-> "rule", admin |-> a, read |-> r, write |-> w]
Identities == {"A", "B"}
GLOBAL == "GLOBAL"
Shared == Rule({"B"}, {GLOBAL}, {"A"})
AdminOnly == Rule({"B"}, {}, {})
Contents == {Data(v) : v \in 1..MaxData} \cup {Shared, AdminOnly}

EmptyStore == [p \in StorePaths |-> NoFile]

\* a local sync folder: each path is absent, a directory or a file
LocalPaths == {<<"a">>, <<"a", "b">>, <<"a", "c">>, <<"d">>}
Absent == [kind |-> "absent"]
Dir == [kind |-> "dir"]
File(v) == [kind |-> "file", v |-> v]
EmptyTree == [p \in LocalPaths |-> Absent]

\* the sync side as it is when nothing of it is used
SyncParked == store = EmptyStore /\ tree = EmptyTree /\ call = NoCall

\* the datasites a client syncs: its own and one of a peer
OWN == "me"
PEER == "peer"
Datasites == {OWN, PEER}

\* the files of the datasites, in the order a directory walk lists them: the
\* permission file and a small file of the own datasite, a large file of the peer
SyncOrder == <<<<OWN, PERM_FILE>>, <<OWN, "f">>, <<PEER, "g">>>>
SyncPaths == {SyncOrder[i] : i \in 1..Len(SyncOrder)}
SMALL == 1
LARGE == 2
file_size(p) == IF p[1] = PEER THEN LARGE ELSE SMALL

\* hashes of file contents; NoHash where there is no file
MaxHash == 2
NoHash == 0
FileHashes == 1..MaxHash
Snapshots == [SyncPaths -> {NoHash} \cup FileHashes]
EmptySnapshot == [p \in SyncPaths |-> NoHash]

NoStates == [states |-> <<>>, at |-> 0]
NoIteration == [enqueued |-> <<>>, handed |-> <<>>, applied |-> <<>>,
                failed |-> {}, fetch |-> [kind |-> "none", items |-> <<>>]]

\* the sync manager as it is when it is not used
ManagerParked ==
    /\ local_state = EmptySnapshot
    /\ remote_state = EmptySnapshot
    /\ loop = "none"
    /\ datasite_states = NoStates
    /\ queue = <<>>
    /\ iteration = NoIteration
    /\ threads = 0

\* a project with no event, on the node and on the leader, and no call
NoProject == [events |-> <<>>, event_id_hashmap |-> {}]
ProjectParked == project = NoProject /\ leader = <<>> /\ adding = NoCall

Init ==
    /\ now = 0
    /\ future \in {[expires |-> e] : e \in Expiries}
    /\ files = [request |-> NoFile, response |-> NoFile, rejected |-> FALSE]
    /\ pc = "idle"
    /\ timeout = NoneT
    /\ poll_interval = 0
    /\ deadline = Inf
    /\ wake = 0
    /\ futures = <<>>
    /\ pending = {}
    /\ responses = <<>>
    /\ pre = NoCall
    /\ ret = NoCall
    /\ outcome = NoCall
    /\ unlinked = 0
    /\ abandoned = FALSE
    /\ member_files = NoResponses
    /\ subject = NoSubject
    /\ idents = NoCall
    /\ SyncParked
    /\ ManagerParked
    /\ ProjectParked

\* nothing was just called
Quiet == pre' = NoCall /\ ret' = NoCall /\ outcome' = NoCall

----------------------------------------------------------------------------
\* The clock and the other actors on the synced tree.

Tick ==
    /\ now < MaxTime
    /\ now' = now + 1
    /\ Quiet
    /\ UNCHANGED <<future, files, pc, timeout, poll_interval, deadline, wake,
                   futures, pending, responses, unlinked, abandoned>>
    /\ UNCHANGED beyond_future

Written(fs) ==
    /\ files' = fs
    /\ Quiet
    /\ UNCHANGED <<now, future, pc, timeout, poll_interval, deadline, wake,
                   futures, pending, responses, unlinked, abandoned>>
    /\ UNCHANGED beyond_future

\* the sender writes (or a resubmission rewrites) <id>.request
WriteRequest == \E c \in RequestContents : Written([files EXCEPT !.request = c])

\* the recipient writes <id>.response
WriteResponse == \E c \in ResponseContents : Written([files EXCEPT !.response = c])

\* the cache server writes the rejection marker
WriteRejected == ~files.rejected /\ Written([files EXCEPT !.rejected = TRUE])

\* the server removes an expired request and its response
ServerCleanup ==
    /\ loads(files.request) /\ is_expired(files.request, now)
    /\ Written([files EXCEPT !.request = NoFile, !.response = NoFile])

----------------------------------------------------------------------------
\* The calling thread.

\* number of the future's files that exist in `before` and not in `after`
Unlinked(before, after) ==
    (IF exists(before.request) /\ ~exists(after.request) THEN 1 ELSE 0)
    + (IF exists(before.response) /\ ~exists(after.response) THEN 1 ELSE 0)
    + (IF before.rejected /\ ~after.rejected THEN 1 ELSE 0)

\* one resolve() call with outcome r
Resolved(r) ==
    /\ files' = r.files
    /\ pre' = [kind |-> "call", files |-> files, now |-> now]
    /\ ret' = r.ret

\* the locals of a call that is over
Returned ==
    /\ pc' = "idle"
    /\ timeout' = NoneT /\ poll_interval' = 0 /\ deadline' = Inf /\ wake' = 0
    /\ futures' = <<>> /\ pending' = {}
    /\ unlinked' = 0

\* how a call ended: op is "wait" or "gather", result what it returned or raised
Ended(op, result, t, p) ==
    outcome' = [kind |-> "ended", op |-> op, result |-> result,
                timeout |-> t, poll_interval |-> p]

\* the caller calls future.resolve()
Resolve ==
    /\ pc = "idle"
    /\ Resolved(resolve(future, files, now))
    /\ outcome' = NoCall
    /\ UNCHANGED <<now, future, pc, timeout, poll_interval, deadline, wake,
                   futures, pending, responses, unlinked, abandoned>>
    /\ UNCHANGED beyond_future

\* variant: only negative arguments are refused, as the docstring words it
invalid_arguments_negative_only(t, p) == (t.some /\ t.val < 0) \/ p < 0

\* `timeout is not None and timeout <= 0` or `poll_interval <= 0`
invalid_arguments(t, p) == (t.some /\ t.val <= 0) \/ p <= 0

\* variant: without a timeout the deadline is the time of the call
new_deadline_none_is_now(t) == IF t.some /\ t.val # 0 THEN At(now + t.val) ELSE At(now)

\* time.monotonic() + (timeout or float("inf"))
new_deadline(t) == IF t.some /\ t.val # 0 THEN At(now + t.val) ELSE Inf

\* time.monotonic() < deadline
before_deadline(d) == d.inf \/ now < d.at

\* SyftFuture.wait, up to the loop
WaitCall ==
    /\ pc = "idle"
    /\ \E t \in TimeoutArgs, p \in PollArgs :
        IF invalid_arguments(t, p)
        THEN /\ Ended("wait", [kind |-> "ValueError"], t, p)
             /\ UNCHANGED <<pc, timeout, poll_interval, deadline>>
        ELSE /\ pc' = "wait_loop"
             /\ timeout' = t
             /\ poll_interval' = p
             /\ deadline' = new_deadline(t)
             /\ outcome' = NoCall
    /\ pre' = NoCall /\ ret' = NoCall
    /\ abandoned' = FALSE
    /\ UNCHANGED <<now, future, files, wake, futures, pending, responses, unlinked>>
    /\ UNCHANGED beyond_future

\* variant: the request file is unlinked when the deadline has passed
WaitLoop_unlinks_on_timeout ==
    /\ pc = "wait_loop"
    /\ IF before_deadline(deadline)
       THEN LET r == resolve(future, files, now)
            IN  /\ Resolved(r)
                /\ IF r.ret.kind = "None"
                   THEN /\ pc' = "wait_sleep"
                        /\ wake' = now + poll_interval
                        /\ unlinked' = unlinked + Unlinked(files, r.files)
                        /\ outcome' = NoCall
                        /\ UNCHANGED <<timeout, poll_interval, deadline,
                                       futures, pending, abandoned>>
                   ELSE /\ Returned
                        /\ Ended("wait",
                                 [kind |-> IF r.ret.kind = "raise" THEN "raised" ELSE "returned",
                                  unlinked |-> unlinked + Unlinked(files, r.files)],
                                 timeout, poll_interval)
                        /\ UNCHANGED abandoned
       ELSE /\ Returned
            /\ Ended("wait", [kind |-> "SyftTimeoutError", unlinked |-> unlinked],
                     timeout, poll_interval)
            /\ abandoned' = TRUE
            /\ pre' = NoCall /\ ret' = NoCall
            /\ files' = [files EXCEPT !.request = NoFile]
    /\ UNCHANGED <<now, future, responses>>
    /\ UNCHANGED beyond_future

\* one turn of `while time.monotonic() < deadline`, up to the sleep
WaitLoop ==
    /\ pc = "wait_loop"
    /\ IF before_deadline(deadline)
       THEN LET r == resolve(future, files, now)
            IN  /\ Resolved(r)
                /\ IF r.ret.kind = "None"
                   THEN /\ pc' = "wait_sleep"
                        /\ wake' = now + poll_interval
                        /\ unlinked' = unlinked + Unlinked(files, r.files)
                        /\ outcome' = NoCall
                        /\ UNCHANGED <<timeout, poll_interval, deadline,
                                       futures, pending, abandoned>>
                   ELSE /\ Returned
                        /\ Ended("wait",
                                 [kind |-> IF r.ret.kind = "raise" THEN "raised" ELSE "returned",
                                  unlinked |-> unlinked + Unlinked(files, r.files)],
                                 timeout, poll_interval)
                        /\ UNCHANGED abandoned
       ELSE /\ Returned
            /\ Ended("wait", [kind |-> "SyftTimeoutError", unlinked |-> unlinked],
                     timeout, poll_interval)
            /\ abandoned' = TRUE
            /\ pre' = NoCall /\ ret' = NoCall
            /\ UNCHANGED files
    /\ UNCHANGED <<now, future, responses>>
    /\ UNCHANGED beyond_future

\* time.sleep(poll_interval) returns
WaitWake ==
    /\ pc = "wait_sleep"
    /\ now >= wake
    /\ pc' = "wait_loop"
    /\ Quiet
    /\ UNCHANGED <<now, future, files, timeout, poll_interval, deadline, wake,
                   futures, pending, responses, unlinked, abandoned>>
    /\ UNCHANGED beyond_future

\* SyftBulkFuture(futures=...).gather_completed, up to the loop
GatherCallOn(lists) ==
    /\ pc = "idle"
    /\ \E fl \in lists, t \in TimeoutArgs, p \in PollArgs :
        IF invalid_arguments(t, p)
        THEN /\ Ended("gather", [kind |-> "ValueError"], t, p)
             /\ UNCHANGED <<pc, timeout, poll_interval, deadline, futures, pending>>
        ELSE /\ pc' = "gather_loop"
             /\ futures' = fl
             /\ timeout' = t
             /\ poll_interval' = p
             /\ pending' = {fl[i] : i \in DOMAIN fl}
             /\ deadline' = new_deadline(t)
             /\ outcome' = NoCall
    /\ pre' = NoCall /\ ret' = NoCall
    /\ UNCHANGED <<now, future, files, wake, responses, unlinked, abandoned>>
    /\ UNCHANGED beyond_future

GatherCall == GatherCallOn(FutureLists)

\* variant: resolve() takes the argument, and every pending member whose response
\* file is there yields its response, in the order the set is walked
GatherLoop_collects ==
    /\ pc = "gather_loop"
    /\ Returned
    /\ LET done == IF before_deadline(deadline)
                   THEN {m \in pending : member_files[m]}
                   ELSE {}
       IN  \E order \in [1..Cardinality(done) -> done] :
              /\ \A i, j \in DOMAIN order : i # j => order[i] # order[j]
              /\ responses' =
                     responses \o [i \in DOMAIN order |->
                                      [kind |-> "response", member |-> order[i]]]
              /\ Ended("gather", [kind |-> "returned", responses |-> responses'],
                       timeout, poll_interval)
    /\ pre' = NoCall /\ ret' = NoCall
    /\ UNCHANGED <<now, future, files, abandoned>>
    /\ UNCHANGED beyond_future

\* `while pending and time.monotonic() < deadline`: the first
\* future.resolve(silent=True) is a TypeError, resolve() takes no `silent`
GatherLoop ==
    /\ pc = "gather_loop"
    /\ Returned
    /\ Ended("gather",
             IF pending # {} /\ before_deadline(deadline)
             THEN [kind |-> "TypeError"]
             ELSE [kind |-> "returned", responses |-> responses],
             timeout, poll_interval)
    /\ pre' = NoCall /\ ret' = NoCall
    /\ UNCHANGED <<now, future, files, responses, abandoned>>
    /\ UNCHANGED beyond_future

Next ==
    \/ Tick
    \/ WriteRequest
    \/ WriteResponse
    \/ WriteRejected
    \/ ServerCleanup
    \/ Resolve
    \/ WaitCall
    \/ WaitLoop
    \/ WaitWake
    \/ GatherCall
    \/ GatherLoop

Spec == Init /\ [][Next]_vars

\* wait() on a future whose files no other actor removes, while time advances
\* and the calling thread keeps running
\* time.sleep(poll_interval) returns, on a clock whose last value MaxTime stands
\* for every later time: no expiry of a message is later than MaxTime
WaitWakeInTime ==
    /\ pc = "wait_sleep"
    /\ now >= wake \/ now = MaxTime
    /\ pc' = "wait_loop"
    /\ Quiet
    /\ UNCHANGED <<now, future, files, timeout, poll_interval, deadline, wake,
                   futures, pending, responses, unlinked, abandoned>>
    /\ UNCHANGED beyond_future

WaitNext ==
    \/ Tick
    \/ WriteRequest
    \/ WriteResponse
    \/ WriteRejected
    \/ WaitCall
    \/ WaitLoop
    \/ WaitWakeInTime

SpecWait ==
    /\ Init
    /\ [][WaitNext]_vars
    /\ WF_vars(Tick) /\ WF_vars(WaitLoop) /\ WF_vars(WaitWakeInTime)

----------------------------------------------------------------------------
\* A bulk future of several members, each with its own response file.

\* the recipient of member m writes m's response file
MemberAnswered ==
    \E m \in BulkMembers :
        /\ ~member_files[m]
        /\ member_files' = [member_files EXCEPT ![m] = TRUE]
        /\ Quiet
        /\ UNCHANGED <<now, future, files, pc, timeout, poll_interval, deadline,
                       wake, futures, pending, responses, unlinked, abandoned>>
        /\ UNCHANGED <<identity_vars, sync_vars, manager_vars, project_vars>>

BulkGatherCall == GatherCallOn(BulkLists)

BulkNext ==
    \/ Tick
    \/ MemberAnswered
    \/ BulkGatherCall
    \/ GatherLoop

SpecBulk == Init /\ [][BulkNext]_vars

----------------------------------------------------------------------------
\* Identities: SyftMessage.get_message_id / get_message_hash, SyftBulkFuture.id.

\* Headers is a dict: its items in insertion order, one item per key
HeaderKeys == {"accept", "content-type"}
HeaderItems == {[key |-> k, value |-> "x"] : k \in HeaderKeys}
Headers ==
    {h \in UNION {[1..n -> HeaderItems] : n \in 0..Cardinality(HeaderKeys)} :
        \A i, j \in DOMAIN h : i # j => h[i].key # h[j].key}

\* dict.__eq__: the same items, in whatever order
SameDict(h1, h2) == {h1[i] : i \in DOMAIN h1} = {h2[i] : i \in DOMAIN h2}

Requests ==
    [kind : {"request"},
     sender : {"alice@openmined.org"},
     url : {"syft://bob@openmined.org/rpc/a", "syft://bob@openmined.org/rpc/b"},
     id : {1, 2},
     body : {[kind |-> "None"], [kind |-> "bytes", bytes |-> "payload"]},
     headers : Headers,
     created : {0, 1},
     expires : Expiries,
     method : {"GET", "POST"}]

\* model_dump_json(include=[...]): the included fields, the dict items in
\* insertion order, nothing of id, created and expires
model_dump_json(m) ==
    [sender |-> m.sender, url |-> m.url, body |-> m.body,
     headers |-> m.headers, method |-> m.method]

\* hashlib.sha256 of a text; two texts have two digests
sha256(text) == [sha256 |-> text]

\* digest()[:16]
first16(h) == [first16 |-> h]

\* ULID.from_bytes
ULID_from_bytes(b) == [ulid |-> b]

msg_hash(m) == sha256(model_dump_json(m))

get_message_id(m) == ULID_from_bytes(first16(msg_hash(m)))

get_message_hash(m) == msg_hash(m)

\* ",".join(str(f.id) for f in self.futures): the member ids in list order
combined(fl) == fl

bulk_id(fl) == ULID_from_bytes(first16(sha256(combined(fl))))

IdentityInit ==
    /\ now = 0
    /\ future = [expires |-> 0]
    /\ files = [request |-> NoFile, response |-> NoFile, rejected |-> FALSE]
    /\ pc = "idle"
    /\ timeout = NoneT
    /\ poll_interval = 0
    /\ deadline = Inf
    /\ wake = 0
    /\ futures = <<>>
    /\ pending = {}
    /\ responses = <<>>
    /\ pre = NoCall
    /\ ret = NoCall
    /\ outcome = NoCall
    /\ unlinked = 0
    /\ abandoned = FALSE
    /\ member_files = NoResponses
    /\ subject \in [kind : {"messages"}, a : Requests, b : Requests]
                    \cup [kind : {"bulks"}, a : BulkLists, b : BulkLists]
    /\ idents = NoCall
    /\ SyncParked
    /\ ManagerParked
    /\ ProjectParked

\* get_message_id() and get_message_hash() of both messages
GetMessageId ==
    /\ subject.kind = "messages"
    /\ idents = NoCall
    /\ idents' = [kind |-> "identities",
                  id |-> <<get_message_id(subject.a), get_message_id(subject.b)>>,
                  hash |-> <<get_message_hash(subject.a),
                             get_message_hash(subject.b)>>]
    /\ UNCHANGED <<future_vars, member_files, subject, sync_vars, manager_vars, project_vars>>

\* SyftBulkFuture.id of both bulk futures
BulkId ==
    /\ subject.kind = "bulks"
    /\ idents = NoCall
    /\ idents' = [kind |-> "identities",
                  id |-> <<bulk_id(subject.a), bulk_id(subject.b)>>]
    /\ UNCHANGED <<future_vars, member_files, subject, sync_vars, manager_vars, project_vars>>

IdentityNext ==
    \/ GetMessageId
    \/ BulkId

SpecIdentity == IdentityInit /\ [][IdentityNext]_vars

----------------------------------------------------------------------------
\* The server's sync handlers (syftbox/server/sync/router.py) on the file store.

\* SyftPermission.is_permission_file
is_permission_file(p) == p[Len(p)] = PERM_FILE

\* SyftPermission.is_valid: the bytes deserialize into a rule
is_valid(c) == c.kind = "rule"

\* UploadFile.filename with a '%' in it
PercentPath == <<"ds", "100%">>
has_percent(p) == p = PercentPath

\* FileMetadata of a stored file, its hash computed from the content
metadata(p, c) == [path |-> p, hash |-> sha256(c)]

\* FileStore.put
put(st, p, c) == [st EXCEPT ![p] = c]

\* FileStore.delete: no error when the path is not stored
delete(st, p) == [st EXCEPT ![p] = NoFile]

\* a diff made against the content `base`, leading to `target`
Diffs == {[base |-> b, target |-> t] : b \in Contents, t \in Contents} \ 
         {[base |-> c, target |-> c] : c \in Contents}

\* py_fast_rsync.apply: the target when the diff is applied to the content it
\* was made against, other bytes (modelled as data 0) otherwise
rsync_apply(data, diff) == IF data = diff.base THEN diff.target ELSE Data(0)

Hashes == {sha256(c) : c \in Contents}

\* what a handler leaves: the store, the HTTP status, whether FileStore.put ran,
\* and the body of the reply
Reply(st, status, wrote, result) ==
    [store |-> st, status |-> status, put |-> wrote, result |-> result]

Detail(text) == [detail |-> text]

\* variant: previous_hash is read from the store after the put
apply_diffs_hash_after_put(st, req) ==
    LET file == st[req.path]
        result == rsync_apply(file, req.diff)
        new_hash == sha256(result)
    IN  IF ~exists(file)
        THEN Reply(st, 404, FALSE, Detail("file not found"))
        ELSE IF new_hash # req.expected_hash
        THEN Reply(st, 400, FALSE, Detail("hash mismatch, skipped writing"))
        ELSE IF is_permission_file(req.path) /\ ~is_valid(result)
        THEN Reply(st, 400, FALSE,
                   Detail("invalid syftpermission contents, skipped writing"))
        ELSE Reply(put(st, req.path, result), 200, TRUE,
                   [current_hash |-> new_hash,
                    previous_hash |-> metadata(req.path, result).hash])

\* variant: the hash is not compared
apply_diffs_without_hash_check(st, req) ==
    LET file == st[req.path]
        result == rsync_apply(file, req.diff)
        new_hash == sha256(result)
    IN  IF ~exists(file)
        THEN Reply(st, 404, FALSE, Detail("file not found"))
        ELSE IF is_permission_file(req.path) /\ ~is_valid(result)
        THEN Reply(st, 400, FALSE,
                   Detail("invalid syftpermission contents, skipped writing"))
        ELSE Reply(put(st, req.path, result), 200, TRUE,
                   [current_hash |-> new_hash,
                    previous_hash |-> metadata(req.path, file).hash])

\* variant: permission files are not validated
apply_diffs_without_validation(st, req) ==
    LET file == st[req.path]
        result == rsync_apply(file, req.diff)
        new_hash == sha256(result)
    IN  IF ~exists(file)
        THEN Reply(st, 404, FALSE, Detail("file not found"))
        ELSE IF new_hash # req.expected_hash
        THEN Reply(st, 400, FALSE, Detail("hash mismatch, skipped writing"))
        ELSE Reply(put(st, req.path, result), 200, TRUE,
                   [current_hash |-> new_hash,
                    previous_hash |-> metadata(req.path, file).hash])

apply_diffs(st, req) ==
    LET file == st[req.path]
        result == rsync_apply(file, req.diff)
        new_hash == sha256(result)
    IN  IF ~exists(file)
        THEN Reply(st, 404, FALSE, Detail("file not found"))
        ELSE IF new_hash # req.expected_hash
        THEN Reply(st, 400, FALSE, Detail("hash mismatch, skipped writing"))
        ELSE IF is_permission_file(req.path) /\ ~is_valid(result)
        THEN Reply(st, 400, FALSE,
                   Detail("invalid syftpermission contents, skipped writing"))
        ELSE Reply(put(st, req.path, result), 200, TRUE,
                   [current_hash |-> new_hash,
                    previous_hash |-> metadata(req.path, file).hash])

create_file(st, req) ==
    IF has_percent(req.path)
    THEN Reply(st, 400, FALSE, Detail("filename cannot contain '%'"))
    ELSE IF is_permission_file(req.path) /\ ~is_valid(req.contents)
    THEN Reply(st, 400, FALSE,
               Detail("invalid syftpermission contents, skipped writing"))
    ELSE Reply(put(st, req.path, req.contents), 200, TRUE, [status |-> "success"])

delete_file(st, req) ==
    Reply(delete(st, req.path), 200, FALSE, [status |-> "success"])

\* the directory a path is in
dir_of(p) == SubSeq(p, 1, Len(p) - 1)

\* path p is below the directory d
under(p, d) == Len(p) > Len(d) /\ SubSeq(p, 1, Len(d)) = d

perm_path(d) == Append(d, PERM_FILE)

\* the rule that grants nothing
NoRule == Rule({}, {}, {})

\* the permission files of a tree that hold a rule, by directory
has_rule(t, d) == perm_path(d) \in DOMAIN t /\ is_valid(t[perm_path(d)])

\* variant: the rules on the way to the root are merged
RECURSIVE nearest_rule_merged(_, _)
nearest_rule_merged(t, d) ==
    LET here == IF has_rule(t, d) THEN t[perm_path(d)] ELSE NoRule
        above == IF d = <<>> THEN NoRule ELSE nearest_rule_merged(t, dir_of(d))
    IN  Rule(here.admin \cup above.admin, here.read \cup above.read,
             here.write \cup above.write)

\* PermissionTree resolution: walk from the directory toward the root until a
\* rule is found; the first rule found is authoritative
RECURSIVE nearest_rule(_, _)
nearest_rule(t, d) ==
    IF has_rule(t, d) THEN t[perm_path(d)]
    ELSE IF d = <<>> THEN NoRule
    ELSE nearest_rule(t, dir_of(d))

permission_for_path(t, p) == nearest_rule(t, dir_of(p))

\* GLOBAL in a rule's set matches any identity; an admin reads and writes
can_read(i, rule) == i \in rule.read \/ GLOBAL \in rule.read \/ i \in rule.admin
can_write(i, rule) == i \in rule.write \/ GLOBAL \in rule.write \/ i \in rule.admin

\* the paths stored below a directory
stored_under(st, d) == {p \in DOMAIN st : under(p, d) /\ exists(st[p])}

\* PermissionTree.from_path(dir, raise_on_corrupted_files=True): the permission
\* files below dir; ValueError when one of them holds no rule
corrupted(st, d) ==
    \E p \in stored_under(st, d) : is_permission_file(p) /\ ~is_valid(st[p])

from_path(st, d) == [p \in stored_under(st, d) |-> st[p]]

\* FileStore.list
list(st, d) == {metadata(p, st[p]) : p \in stored_under(st, d)}

filter_metadata(email, metadata_list, perm_tree) ==
    {m \in metadata_list : can_read(email, permission_for_path(perm_tree, m.path))}

\* RelativePath.is_absolute
is_absolute(d) == d[1] = "/"

Dirs == {<<"ds">>, <<"ds", "private">>, <<"other">>, <<"/", "ds">>}

\* variant: a best-effort tree, the corrupted permission files skipped
dir_state_best_effort(st, d, email) ==
    IF is_absolute(d)
    THEN Reply(st, 400, FALSE, Detail("dir must be relative"))
    ELSE Reply(st, 200, FALSE, filter_metadata(email, list(st, d), from_path(st, d)))

\* variant: the metadata list is returned as listed
dir_state_unfiltered(st, d, email) ==
    IF is_absolute(d)
    THEN Reply(st, 400, FALSE, Detail("dir must be relative"))
    ELSE IF corrupted(st, d)
    THEN Reply(st, 500, FALSE, Detail("Failed to parse permission tree"))
    ELSE Reply(st, 200, FALSE, list(st, d))

dir_state(st, d, email) ==
    IF is_absolute(d)
    THEN Reply(st, 400, FALSE, Detail("dir must be relative"))
    ELSE IF corrupted(st, d)
    THEN Reply(st, 500, FALSE, Detail("Failed to parse permission tree"))
    ELSE Reply(st, 200, FALSE, filter_metadata(email, list(st, d), from_path(st, d)))

\* get_all_datasites: the top-level directories of the stored files
get_all_datasites(st) == {p[1] : p \in {q \in DOMAIN st : exists(st[q])}}

\* a datasite whose dir_state raises is skipped
get_datasite_states(st, email) ==
    LET done == {ds \in get_all_datasites(st) : dir_state(st, <<ds>>, email).status = 200}
    IN  Reply(st, 200, FALSE, [ds \in done |-> dir_state(st, <<ds>>, email).result])

\* the snapshot folder the server runs on holds any files
ServerInit ==
    /\ now = 0
    /\ future = [expires |-> 0]
    /\ files = [request |-> NoFile, response |-> NoFile, rejected |-> FALSE]
    /\ pc = "idle"
    /\ timeout = NoneT
    /\ poll_interval = 0
    /\ deadline = Inf
    /\ wake = 0
    /\ futures = <<>>
    /\ pending = {}
    /\ responses = <<>>
    /\ pre = NoCall
    /\ ret = NoCall
    /\ outcome = NoCall
    /\ unlinked = 0
    /\ abandoned = FALSE
    /\ member_files = NoResponses
    /\ subject = NoSubject
    /\ idents = NoCall
    /\ store \in [StorePaths -> {NoFile} \cup Contents]
    /\ tree = EmptyTree
    /\ call = NoCall
    /\ ManagerParked
    /\ ProjectParked

\* the handler of `op` serves the request `req` of the identity `who`
Served(op, who, req, out) ==
    /\ call = NoCall
    /\ call' = [kind |-> "call", op |-> op, who |-> who, req |-> req,
                before |-> store, status |-> out.status, put |-> out.put,
                result |-> out.result]
    /\ store' = out.store
    /\ UNCHANGED <<future_vars, member_files, identity_vars, tree, manager_vars, project_vars>>

ApplyDiff ==
    \E who \in Identities, p \in StorePaths, d \in Diffs, h \in Hashes :
        LET req == [path |-> p, diff |-> d, expected_hash |-> h]
        IN  Served("apply_diff", who, req, apply_diffs(store, req))

CreateFile ==
    \E who \in Identities, p \in StorePaths \cup {PercentPath}, c \in Contents :
        LET req == [path |-> p, contents |-> c]
        IN  Served("create", who, req, create_file(store, req))

DeleteFile ==
    \E who \in Identities, p \in StorePaths :
        LET req == [path |-> p]
        IN  Served("delete", who, req, delete_file(store, req))

DirState ==
    \E who \in Identities, d \in Dirs :
        Served("dir_state", who, [dir |-> d], dir_state(store, d, who))

DatasiteStates ==
    \E who \in Identities :
        Served("datasite_states", who, [dir |-> <<>>],
               get_datasite_states(store, who))

\* the reply is sent
Respond ==
    /\ call # NoCall
    /\ call' = NoCall
    /\ UNCHANGED <<future_vars, member_files, identity_vars, store, tree,
                   manager_vars, project_vars>>

ServerNext ==
    \/ ApplyDiff
    \/ CreateFile
    \/ DeleteFile
    \/ DirState
    \/ DatasiteStates
    \/ Respond

SpecServer == ServerInit /\ [][ServerNext]_vars

----------------------------------------------------------------------------
\* FileChange.delete and FileChange.write_to (lib/lib.py) on a local sync folder.

\* the directories above a path
ancestors(p) == {SubSeq(p, 1, n) : n \in 1..(Len(p) - 1)}

\* an OSError and its message
OSError(text) == [kind |-> "OSError", text |-> text]
Done == [kind |-> "done"]

\* os.unlink(path)
unlink_error(t, p) ==
    IF \E q \in ancestors(p) : t[q].kind = "file" THEN OSError("Not a directory")
    ELSE IF \E q \in ancestors(p) : t[q].kind = "absent"
         THEN OSError("No such file or directory")
    ELSE IF t[p].kind = "absent" THEN OSError("No such file or directory")
    ELSE IF t[p].kind = "dir" THEN OSError("Is a directory")
    ELSE Done

\* "No such file" in str(e)
mentions_no_such_file(e) == e.text = "No such file or directory"

\* what a FileChange method leaves: the folder, and what it returned or raised
Left(t, r) == [tree |-> t, ret |-> r]

FileChange_delete(t, p) ==
    LET e == unlink_error(t, p)
    IN  IF e = Done THEN Left([t EXCEPT ![p] = Absent], [kind |-> "bool", val |-> TRUE])
        ELSE IF mentions_no_such_file(e) THEN Left(t, [kind |-> "bool", val |-> TRUE])
        ELSE Left(t, [kind |-> "bool", val |-> FALSE])

\* os.makedirs(base_dir, exist_ok=True)
makedirs(t, p) == [q \in LocalPaths |-> IF q \in ancestors(p) THEN Dir ELSE t[q]]

FileChange_write_to(t, p, data) ==
    IF \E q \in ancestors(p) : t[q].kind = "file"
    THEN Left(t, [kind |-> "raise", exc |-> "FileExistsError"])
    ELSE IF t[p].kind = "dir"
    THEN Left(makedirs(t, p), [kind |-> "bool", val |-> FALSE])
    ELSE Left([makedirs(t, p) EXCEPT ![p] = File(data)], [kind |-> "bool", val |-> TRUE])

\* a method of a FileChange for path p is called
Changed(op, req, out) ==
    /\ call = NoCall
    /\ call' = [kind |-> "call", op |-> op, req |-> req, before |-> tree,
                result |-> out.ret]
    /\ tree' = out.tree
    /\ UNCHANGED <<future_vars, member_files, identity_vars, store, manager_vars, project_vars>>

Delete ==
    \E p \in LocalPaths :
        Changed("FileChange.delete", [path |-> p], FileChange_delete(tree, p))

WriteTo ==
    \E p \in LocalPaths, v \in 1..MaxData :
        Changed("FileChange.write_to", [path |-> p, data |-> v],
                FileChange_write_to(tree, p, v))

\* a file cut short: open(path, "wb") emptied it and not all of the data
\* was written
Truncated == File(0)

\* write_to up to the point where the process is killed inside
\* `with open(path, "wb") as f: f.write(data)`
FileChange_write_to_killed(t, p, data) ==
    Left([makedirs(t, p) EXCEPT ![p] = Truncated], [kind |-> "killed"])

\* the process is killed while write_to writes the file
WriteToKilled ==
    \E p \in LocalPaths, v \in 1..MaxData :
        /\ FileChange_write_to(tree, p, v).ret = [kind |-> "bool", val |-> TRUE]
        /\ Changed("FileChange.write_to", [path |-> p, data |-> v],
                   FileChange_write_to_killed(tree, p, v))

LocalNext ==
    \/ Delete
    \/ WriteTo
    \/ WriteToKilled
    \/ Respond

\* an empty sync folder
LocalInit == Init /\ future = [expires |-> 0]

SpecLocal == LocalInit /\ [][LocalNext]_vars

----------------------------------------------------------------------------
\* The client's sync manager (SyncManager): its thread fetches the datasite
\* states, enqueues the changes of each datasite and has the consumer drain
\* the queue, then sleeps and starts over.

\* a FileChangeInfo: the kind of change and the path it is about
ChangeKinds == {"create", "write", "delete"}
FileChangeInfo(kind, p) == [kind |-> kind, path |-> p]
Changes == {FileChangeInfo(k, p) : k \in ChangeKinds, p \in SyncPaths}

\* FileChangeInfo.get_priority: permission files first, then small before large
get_priority(change) ==
    IF is_permission_file(change.path) THEN 0 ELSE file_size(change.path)

SyncQueueItem(priority, data) == [priority |-> priority, data |-> data]

\* SyncQueue.put: the queue keeps its items in the order they came
SyncQueue_put(q, item) == Append(q, item)

\* the place of the item SyncQueue.get hands out: of the items of the least
\* priority value the one that came first
first_out(q) ==
    CHOOSE i \in 1..Len(q) :
        \A j \in 1..Len(q) :
            \/ q[i].priority < q[j].priority
            \/ q[i].priority = q[j].priority /\ i <= j

without(q, i) == SubSeq(q, 1, i - 1) \o SubSeq(q, i + 1, Len(q))

enqueue_lost(q, change) == q

enqueue_unprioritised(q, change) == SyncQueue_put(q, SyncQueueItem(0, change))

\* SyncManager.enqueue
enqueue(q, change) == SyncQueue_put(q, SyncQueueItem(get_priority(change), change))

RECURSIVE enqueue_each(_, _)
\* for change in changes: self.enqueue(change)
enqueue_each(q, changes) ==
    IF changes = <<>> THEN q
    ELSE enqueue_each(enqueue(q, Head(changes)), Tail(changes))

classify_by_presence(l, r) ==
    IF l = NoHash /\ r # NoHash THEN "create"
    ELSE IF l # NoHash /\ r = NoHash THEN "delete"
    ELSE "none"

\* the change detector: how one path is out of sync between two snapshots
classify(l, r) ==
    IF l = r THEN "none"
    ELSE IF l = NoHash THEN "create"
    ELSE IF r = NoHash THEN "delete"
    ELSE "write"

RECURSIVE diff_along(_, _, _)
diff_along(order, local, remote) ==
    IF order = <<>> THEN <<>>
    ELSE LET p == Head(order)
             k == classify(local[p], remote[p])
         IN  (IF k = "none" THEN <<>> ELSE <<FileChangeInfo(k, p)>>)
             \o diff_along(Tail(order), local, remote)

\* diff(local, remote): the changes of the out-of-sync paths, in path order
diff(local, remote) == diff_along(SyncOrder, local, remote)

\* the part of a snapshot that lies in the datasite of `email`
of(email, snapshot) ==
    [p \in SyncPaths |-> IF p[1] = email THEN snapshot[p] ELSE NoHash]

DatasiteState(email, remote) == [email |-> email, remote_state |-> remote]

\* DatasiteState.get_out_of_sync_files: the diff of the datasite, permission
\* files apart from the other files
get_out_of_sync_files(datasite, local) ==
    LET changes == diff(of(datasite.email, local), datasite.remote_state)
        is_perm(c) == is_permission_file(c.path)
        is_file(c) == ~is_permission_file(c.path)
    IN  [permission_changes |-> SelectSeq(changes, is_perm),
         file_changes |-> SelectSeq(changes, is_file)]

\* what the fetch of the datasite states from the server gives: it raises, or
\* it answers the remote files of some datasites, in some order
Raised == [kind |-> "raise", items |-> <<>>]
Orders ==
    {o \in UNION {[1..n -> Datasites] : n \in 0..Cardinality(Datasites)} :
        \A i, j \in DOMAIN o : o[i] = o[j] => i = j}
Answered(o, remote) ==
    [kind |-> "dict",
     items |-> [i \in DOMAIN o |-> DatasiteState(o[i], of(o[i], remote))]]
Fetches(remote) == {Raised} \cup {Answered(o, remote) : o \in Orders}

emails(states) == {states[i].email : i \in DOMAIN states}

SyncManager_get_datasite_states_as_fetched(fetched) == fetched.items

\* SyncManager.get_datasite_states
SyncManager_get_datasite_states(fetched) ==
    LET remote_datasite_states ==
            IF fetched.kind = "raise" THEN <<>> ELSE fetched.items
    IN  IF OWN \notin emails(remote_datasite_states)
        THEN Append(remote_datasite_states, DatasiteState(OWN, EmptySnapshot))
        ELSE remote_datasite_states

\* what can go wrong while the changes of one datasite are enqueued: the diff
\* raises, or the enqueue of the change after the first `done` ones raises
DiffRaises == [diff |-> "raise", done |-> 0]
Enqueues(n) == [diff |-> "ok", done |-> n]

\* what enqueue_datasite_changes leaves: the queue, the changes it enqueued,
\* and whether it raised
Enqueued(q, changes, raised) == [queue |-> q, enqueued |-> changes, raised |-> raised]

enqueue_datasite_changes_unguarded(q, datasite, local, out) ==
    IF out.diff = "raise" THEN Enqueued(q, <<>>, TRUE)
    ELSE LET found == get_out_of_sync_files(datasite, local)
             changes == found.permission_changes \o found.file_changes
             first == SubSeq(changes, 1, out.done)
         IN  Enqueued(enqueue_each(q, first), first, out.done < Len(changes))

enqueue_datasite_changes_files_first(q, datasite, local, out) ==
    LET found == IF out.diff = "raise"
                 THEN [permission_changes |-> <<>>, file_changes |-> <<>>]
                 ELSE get_out_of_sync_files(datasite, local)
        changes == found.file_changes \o found.permission_changes
        first == SubSeq(changes, 1, out.done)
    IN  Enqueued(enqueue_each(q, first), first, out.done < Len(changes))

\* SyncManager.enqueue_datasite_changes
enqueue_datasite_changes(q, datasite, local, out) ==
    LET found == IF out.diff = "raise"
                 THEN [permission_changes |-> <<>>, file_changes |-> <<>>]
                 ELSE get_out_of_sync_files(datasite, local)
        changes == found.permission_changes \o found.file_changes
        first == SubSeq(changes, 1, out.done)
    IN  Enqueued(enqueue_each(q, first), first, out.done < Len(changes))

\* the ways the enqueuing of the changes of a datasite can go
Outcomes(datasite, local) ==
    LET found == get_out_of_sync_files(datasite, local)
        n == Len(found.permission_changes) + Len(found.file_changes)
    IN  {DiffRaises} \cup {Enqueues(k) : k \in 0..n}

\* an applied change: what was written where (NoHash: the file was removed)
Applied(p, side, hash) == [path |-> p, side |-> side, hash |-> hash]

\* what the consumer leaves
Consumed(l, r, applied) == [local |-> l, remote |-> r, applied |-> applied]

process_as_queued(change, l, r, fails) ==
    LET p == change.path
    IN  IF fails THEN Consumed(l, r, <<>>)
        ELSE IF p[1] = OWN
        THEN Consumed(l, [r EXCEPT ![p] = l[p]], <<Applied(p, "remote", l[p])>>)
        ELSE Consumed([l EXCEPT ![p] = r[p]], r, <<Applied(p, "local", r[p])>>)

\* the consumer handles one change: it reads the state of the path as it is
\* now, and brings the path in sync if it is not; the own datasite is pushed,
\* the others are pulled; a transfer that fails leaves both sides as they are
process(change, l, r, fails) ==
    LET p == change.path
    IN  IF l[p] = r[p] \/ fails THEN Consumed(l, r, <<>>)
        ELSE IF p[1] = OWN
        THEN Consumed(l, [r EXCEPT ![p] = l[p]], <<Applied(p, "remote", l[p])>>)
        ELSE Consumed([l EXCEPT ![p] = r[p]], r, <<Applied(p, "local", r[p])>>)

\* what consume_all leaves: the queue, both sides, the changes it was handed
\* and the changes it applied
Drained(q, l, r, handed, applied) ==
    [queue |-> q, local |-> l, remote |-> r, handed |-> handed, applied |-> applied]

RECURSIVE drain(_, _, _, _, _, _)
drain(q, l, r, fails, handed, applied) ==
    IF q = <<>> THEN Drained(q, l, r, handed, applied)
    ELSE LET i == first_out(q)
             change == q[i].data
             c == process(change, l, r, (Len(handed) + 1) \in fails)
         IN  drain(without(q, i), c.local, c.remote, fails,
                   Append(handed, change), applied \o c.applied)

\* SyncConsumer.consume_all: handles the items of the queue one at a time until
\* the queue is empty; `fails` are the items, counted as they are taken, whose
\* transfer fails
consume_all(q, l, r, fails) == drain(q, l, r, fails, <<>>, <<>>)

\* the manager runs on any local and remote files; start() was called
ManagerInit ==
    /\ now = 0
    /\ future = [expires |-> 0]
    /\ files = [request |-> NoFile, response |-> NoFile, rejected |-> FALSE]
    /\ pc = "idle"
    /\ timeout = NoneT
    /\ poll_interval = 0
    /\ deadline = Inf
    /\ wake = 0
    /\ futures = <<>>
    /\ pending = {}
    /\ responses = <<>>
    /\ pre = NoCall
    /\ ret = NoCall
    /\ outcome = NoCall
    /\ unlinked = 0
    /\ abandoned = FALSE
    /\ member_files = NoResponses
    /\ subject = NoSubject
    /\ idents = NoCall
    /\ SyncParked
    /\ local_state \in Snapshots
    /\ remote_state \in Snapshots
    /\ loop = "run_single_thread"
    /\ datasite_states = NoStates
    /\ queue = <<>>
    /\ iteration = NoIteration
    /\ threads = 1
    /\ ProjectParked

beyond_manager == <<future_vars, member_files, identity_vars, sync_vars, project_vars>>

\* run_single_thread begins: datasite_states = self.get_datasite_states(),
\* the fetch giving one of `fetches`
GetDatasiteStatesFrom(fetches) ==
    /\ loop = "run_single_thread"
    /\ \E fetched \in fetches :
        /\ datasite_states' =
               [states |-> SyncManager_get_datasite_states(fetched), at |-> 1]
        /\ iteration' = [NoIteration EXCEPT !.fetch = fetched]
    /\ loop' = IF datasite_states'.states = <<>> THEN "consume_all"
               ELSE "enqueue_datasite_changes"
    /\ UNCHANGED <<local_state, remote_state, queue, threads, beyond_manager>>

GetDatasiteStates == GetDatasiteStatesFrom(Fetches(remote_state))

\* the for loop of run_single_thread: self.enqueue_datasite_changes(datasite_state);
\* an exception it raises ends run_single_thread and with it the thread;
\* `sound`: neither the diff nor an enqueue raises
EnqueueDatasiteChangesWhen(sound) ==
    /\ loop = "enqueue_datasite_changes"
    /\ LET datasite == datasite_states.states[datasite_states.at]
           outs == Outcomes(datasite, local_state)
           whole == {o \in outs : \A other \in outs : other.done <= o.done}
       IN  \E out \in IF sound THEN whole ELSE outs :
            LET e == enqueue_datasite_changes(queue, datasite, local_state, out)
            IN  /\ queue' = e.queue
                /\ iteration' =
                       [iteration EXCEPT
                            !.enqueued = @ \o e.enqueued,
                            !.failed = IF out.diff = "raise"
                                       THEN @ \cup {datasite.email} ELSE @]
                /\ loop' = IF e.raised THEN "dead"
                           ELSE IF datasite_states.at = Len(datasite_states.states)
                           THEN "consume_all"
                           ELSE "enqueue_datasite_changes"
                /\ threads' = IF e.raised THEN threads - 1 ELSE threads
    /\ datasite_states' = [datasite_states EXCEPT !.at = @ + 1]
    /\ UNCHANGED <<local_state, remote_state, beyond_manager>>

EnqueueDatasiteChanges == EnqueueDatasiteChangesWhen(FALSE)

\* the end of run_single_thread: self.consumer.consume_all(); `sound`: every
\* transfer succeeds
ConsumeAllWhen(sound) ==
    /\ loop = "consume_all"
    /\ \E fails \in IF sound THEN {{}} ELSE SUBSET (1..Len(queue)) :
        LET c == consume_all(queue, local_state, remote_state, fails)
        IN  /\ queue' = c.queue
            /\ local_state' = c.local
            /\ remote_state' = c.remote
            /\ iteration' = [iteration EXCEPT !.handed = c.handed,
                                              !.applied = c.applied]
    /\ loop' = "sleep"
    /\ UNCHANGED <<datasite_states, threads, beyond_manager>>

ConsumeAll == ConsumeAllWhen(FALSE)

\* time.sleep(1), and the while loop of start() goes round
Sleep ==
    /\ loop = "sleep"
    /\ loop' = "run_single_thread"
    /\ datasite_states' = NoStates
    /\ iteration' = NoIteration
    /\ UNCHANGED <<local_state, remote_state, queue, threads, beyond_manager>>

ManagerNext ==
    \/ GetDatasiteStates
    \/ EnqueueDatasiteChanges
    \/ ConsumeAll
    \/ Sleep

SpecManager == ManagerInit /\ [][ManagerNext]_vars

\* the manager when nothing fails: the server answers the files of every
\* datasite, no diff and no enqueue raises, every transfer succeeds
Fetched == GetDatasiteStatesFrom({f \in Fetches(remote_state) :
                                     emails(f.items) = Datasites})
EnqueuedAll == EnqueueDatasiteChangesWhen(TRUE)
Synced == ConsumeAllWhen(TRUE)

SteadyNext ==
    \/ Fetched
    \/ EnqueuedAll
    \/ Synced
    \/ Sleep

\* the files when the manager starts: each path is absent or present on either
\* side, the two sides holding the same content or different ones
SteadyInit ==
    /\ ManagerInit
    /\ \A p \in SyncPaths :
          /\ local_state[p] \in {NoHash, 1}
          /\ remote_state[p] \in {NoHash, 1, MaxHash}

\* consume_all returns, and the thread goes to its sleep
Returns == loop = "consume_all" /\ loop' = "sleep"

\* the thread of start() keeps running: it is never held up for ever, and
\* consume_all, with every transfer succeeding, returns
SpecSteady ==
    /\ SteadyInit
    /\ [][SteadyNext]_vars
    /\ WF_vars(Fetched \/ EnqueuedAll \/ Sleep)
    /\ WF_loop(Returns)

----------------------------------------------------------------------------
\* The queue of the manager used directly: changes are enqueued one by one,
\* for any path and of any kind, and the consumer is then asked to drain it.

\* a fresh sync folder, any remote files, a manager that was not started
QueueInit ==
    /\ now = 0
    /\ future = [expires |-> 0]
    /\ files = [request |-> NoFile, response |-> NoFile, rejected |-> FALSE]
    /\ pc = "idle"
    /\ timeout = NoneT
    /\ poll_interval = 0
    /\ deadline = Inf
    /\ wake = 0
    /\ futures = <<>>
    /\ pending = {}
    /\ responses = <<>>
    /\ pre = NoCall
    /\ ret = NoCall
    /\ outcome = NoCall
    /\ unlinked = 0
    /\ abandoned = FALSE
    /\ member_files = NoResponses
    /\ subject = NoSubject
    /\ idents = NoCall
    /\ SyncParked
    /\ local_state = EmptySnapshot
    /\ remote_state \in Snapshots
    /\ loop = "none"
    /\ datasite_states = NoStates
    /\ queue = <<>>
    /\ iteration = NoIteration
    /\ threads = 0
    /\ ProjectParked

\* the changes that write a file
Writes == {c \in Changes : c.kind \in {"create", "write"}}

\* manager.enqueue(change), for a change that writes a file
Enqueue ==
    /\ loop = "none"
    /\ Len(queue) < MaxQueue
    /\ \E change \in Writes :
        /\ queue' = enqueue(queue, change)
        /\ iteration' =
               [NoIteration EXCEPT
                    !.enqueued = (IF queue = <<>> THEN <<>> ELSE iteration.enqueued)
                                 \o <<change>>]
    /\ UNCHANGED <<local_state, remote_state, loop, datasite_states, threads,
                   beyond_manager>>

\* manager.consumer.consume_all()
Drain ==
    /\ loop = "none"
    /\ queue # <<>>
    /\ \E fails \in SUBSET (1..Len(queue)) :
        LET c == consume_all(queue, local_state, remote_state, fails)
        IN  /\ queue' = c.queue
            /\ local_state' = c.local
            /\ remote_state' = c.remote
            /\ iteration' = [iteration EXCEPT !.handed = c.handed,
                                              !.applied = c.applied]
    /\ UNCHANGED <<loop, datasite_states, threads, beyond_manager>>

QueueNext ==
    \/ Enqueue
    \/ Drain

SpecQueue == QueueInit /\ [][QueueNext]_vars

\* SyncManager.start: a new thread is made and started, whatever threads run
\* already; the model follows the first thread through the loop and counts
\* the others
Start ==
    /\ threads < MaxStarts
    /\ threads' = threads + 1
    /\ loop' = IF loop = "none" THEN "run_single_thread" ELSE loop
    /\ UNCHANGED <<local_state, remote_state, datasite_states, queue, iteration,
                   beyond_manager>>

StartNext ==
    \/ Start
    \/ GetDatasiteStates
    \/ EnqueueDatasiteChanges
    \/ ConsumeAll
    \/ Sleep

\* a manager on which start() is called any number of times
SpecStart == QueueInit /\ [][StartNext]_vars

----------------------------------------------------------------------------
\* The change detector on its own: two snapshots are taken and compared.

\* any local and remote snapshot
DetectorInit ==
    /\ now = 0
    /\ future = [expires |-> 0]
    /\ files = [request |-> NoFile, response |-> NoFile, rejected |-> FALSE]
    /\ pc = "idle"
    /\ timeout = NoneT
    /\ poll_interval = 0
    /\ deadline = Inf
    /\ wake = 0
    /\ futures = <<>>
    /\ pending = {}
    /\ responses = <<>>
    /\ pre = NoCall
    /\ ret = NoCall
    /\ outcome = NoCall
    /\ unlinked = 0
    /\ abandoned = FALSE
    /\ member_files = NoResponses
    /\ subject = NoSubject
    /\ idents = NoCall
    /\ SyncParked
    /\ local_state \in Snapshots
    /\ remote_state \in Snapshots
    /\ loop = "none"
    /\ datasite_states = NoStates
    /\ queue = <<>>
    /\ iteration = NoIteration
    /\ threads = 0
    /\ ProjectParked

\* diff(local, remote) is computed
Detect ==
    /\ call = NoCall
    /\ call' = [kind |-> "call", op |-> "diff",
                result |-> diff(local_state, remote_state)]
    /\ UNCHANGED <<future_vars, member_files, identity_vars, store, tree,
                   manager_vars, project_vars>>

DetectorNext ==
    \/ Detect
    \/ Respond

SpecDetector == DetectorInit /\ [][DetectorNext]_vars

----------------------------------------------------------------------------
\* Directory snapshots (hash_dir). File and folder names are sequences of
\* characters, paths are sequences of names, relative to the folder walked.

ICON_FILE == <<"I", "c", "o", "n">>
DS_STORE == <<".", "D", "S", "_", "S", "t", "o", "r", "e">>
IGNORE_FILES == {}
PlainName == <<"f">>
IconicName == ICON_FILE \o <<"i", "c">>
IgFolder == <<"i", "g">>
BigFolder == <<"b">> \o IgFolder
SubFolder == <<"s">>

\* the files a walked folder may hold
WalkPaths ==
    {<<PlainName>>, <<ICON_FILE>>, <<IconicName>>, <<DS_STORE>>,
     <<SubFolder, ICON_FILE>>, <<SubFolder, DS_STORE>>,
     <<IgFolder, PlainName>>, <<IgFolder, SubFolder, PlainName>>,
     <<BigFolder, PlainName>>}

\* a walked folder: the content of each file, NoHash for a file not there
Folders == [WalkPaths -> {NoHash} \cup (1..MaxData)]

\* the ignore_folders argument: None, or a list of folder names
IgnoreArgs == {NoneT, Some(<<>>), Some(<<IgFolder>>)}

\* str.startswith and str.endswith
startswith(s, prefix) ==
    Len(prefix) <= Len(s) /\ SubSeq(s, 1, Len(prefix)) = prefix
endswith(s, suffix) ==
    Len(suffix) <= Len(s) /\ SubSeq(s, Len(s) - Len(suffix) + 1, Len(s)) = suffix

\* the name a folder path ends with as a string; the walked folder itself,
\* the empty relative path, ends with what the caller's full_path ends with
FullPathEnd == <<"x">>
last_name(root) == IF root = <<>> THEN FullPathEnd ELSE root[Len(root)]

\* get_file_hash: the md5 of the content
md5(content) == [md5 |-> content]

\* ignore_dirs(directory, root, ignore_folders); root.endswith(ignore_folder)
\* looks at the end of the path string, which lies in its last name for the
\* folder names here
ignore_dirs(root, ignore_folders) ==
    /\ ignore_folders # NoneT
    /\ \E i \in DOMAIN ignore_folders.val :
           endswith(last_name(root), ignore_folders.val[i])

\* ignore_file(directory, root, filename); root is relative to directory
ignore_file(root, filename) ==
    \/ root = <<>> /\ (startswith(filename, ICON_FILE) \/ filename \in IGNORE_FILES)
    \/ filename = DS_STORE

\* hash_dir(sync_folder, sub_path, ignore_folders): os.walk visits every
\* folder below full_path; DirState.tree maps relative paths to hashes
hash_dir(folder, ignore_folders) ==
    LET there == {p \in WalkPaths : folder[p] # NoHash}
        kept == {p \in there :
                    /\ ~ignore_dirs(dir_of(p), ignore_folders)
                    /\ ~ignore_file(dir_of(p), p[Len(p)])}
    IN  [p \in kept |-> md5(folder[p])]

\* hash_dir is called on a folder
HashDir ==
    \E folder \in Folders, ignore_folders \in IgnoreArgs :
        /\ call = NoCall
        /\ call' = [kind |-> "call", op |-> "hash_dir",
                    req |-> [folder |-> folder, ignore_folders |-> ignore_folders],
                    result |-> hash_dir(folder, ignore_folders)]
        /\ UNCHANGED <<future_vars, member_files, identity_vars, store, tree,
                       manager_vars, project_vars>>

SnapshotNext ==
    \/ HashDir
    \/ Respond

SpecSnapshot == LocalInit /\ [][SnapshotNext]_vars

----------------------------------------------------------------------------
\* resolve() step by step, with other actors writing and removing the files
\* of the future between its steps.

\* the calling thread moves inside resolve(), or leaves it with the outcome r
Stepped(to, r) ==
    /\ pc' = to
    /\ files' = r.files
    /\ pre' = [kind |-> "call", files |-> files, now |-> now]
    /\ ret' = r.ret
    /\ outcome' = NoCall
    /\ UNCHANGED <<now, future, timeout, poll_interval, deadline, wake,
                   futures, pending, responses, unlinked, abandoned>>
    /\ UNCHANGED beyond_future

\* resolve() has not returned yet
Inside == [ret |-> NoCall, files |-> files]

\* Path.read_text() of a file that is not there, inside Base.load
FileNotFound(fs) == [ret |-> Raise("FileNotFoundError"), files |-> fs]

\* resolve() is called: `if self.is_rejected:` and the branch under it
ResolveBegin ==
    /\ pc = "idle"
    /\ IF is_rejected(files)
       THEN Stepped("idle", resolve_rejected(future, files, now))
       ELSE Stepped("response_exists", Inside)

\* `if self.response_path.exists():`
ResponseExists ==
    /\ pc = "response_exists"
    /\ Stepped(IF exists(files.response) THEN "load_response" ELSE "request_exists",
               Inside)

\* _handle_existing_response: SyftResponse.load(self.response_path); the
\* FileNotFoundError of a file removed meanwhile is none of the exceptions
\* caught, the finally clause unlinks both files and the error goes up
LoadResponse ==
    /\ pc = "load_response"
    /\ Stepped("idle",
               IF exists(files.response)
               THEN handle_existing_response(future, files, now)
               ELSE FileNotFound([files EXCEPT !.request = NoFile]))

\* `if not self.request_path.exists():` and the 404 under it
RequestExists ==
    /\ pc = "request_exists"
    /\ IF exists(files.request)
       THEN Stepped("load_request", Inside)
       ELSE Stepped("idle", resolve_no_response(future, files, now))

\* SyftRequest.load(self.request_path) and the rest of resolve()
LoadRequest ==
    /\ pc = "load_request"
    /\ Stepped("idle",
               IF exists(files.request)
               THEN resolve_no_response(future, files, now)
               ELSE FileNotFound(files))

\* another actor removes the request or the response file: the cleanup of the
\* server, the sync of the folder, a second resolver of the future
Removed ==
    \/ exists(files.request) /\ Written([files EXCEPT !.request = NoFile])
    \/ exists(files.response) /\ Written([files EXCEPT !.response = NoFile])

RaceNext ==
    \/ Tick
    \/ WriteRequest
    \/ WriteResponse
    \/ WriteRejected
    \/ Removed
    \/ ResolveBegin
    \/ ResponseExists
    \/ LoadResponse
    \/ RequestExists
    \/ LoadRequest

SpecRace == Init /\ [][RaceNext]_vars

----------------------------------------------------------------------------
\* The event log of a project (syft/service/project/project.py): a node adds
\* events to its copy of a NewProject through the state sync leader, to which
\* other nodes add events too. The events are those without a parent_event_id.

\* the nested append_event calls one add_event can make before the interpreter
\* refuses another one, and the events other nodes add
MaxRetries == 2
MaxEvents == MaxRetries + 1

\* NewProject.id, an Optional[UID] that is None, NewProject.start_hash
PROJECT_ID == 0
NoUID == -1
start_hash == [start |-> PROJECT_ID]

\* the verify keys of the node and of the other shareholders
NODE_KEY == "node"
OTHER_KEY == "other"

\* a ProjectEvent as its constructor leaves it
NewEvent(id) ==
    [id |-> id, project_id |-> NoUID, seq_no |-> 0, prev_event_uid |-> NoUID,
     prev_event_hash |-> None, event_hash |-> None, creator_verify_key |-> "",
     signature |-> None]

\* calculate_hash(self, __hash_keys__): two events that differ in a hashed field
\* have two hashes
hash(e) ==
    [id |-> e.id, creator_verify_key |-> e.creator_verify_key,
     prev_event_uid |-> e.prev_event_uid, prev_event_hash |-> e.prev_event_hash]

\* project.events[-1] if project.events else None
last_of(events) == IF events # <<>> THEN events[Len(events)] ELSE None

\* ProjectEvent.rebase
rebase(e, events) ==
    LET prev_event == last_of(events)
        linked == IF prev_event # None
                  THEN [e EXCEPT !.project_id = PROJECT_ID,
                                 !.prev_event_uid = prev_event.id,
                                 !.prev_event_hash = prev_event.event_hash,
                                 !.seq_no = prev_event.seq_no + 1]
                  ELSE [e EXCEPT !.project_id = PROJECT_ID,
                                 !.prev_event_uid = PROJECT_ID,
                                 !.prev_event_hash = start_hash,
                                 !.seq_no = 1]
        reset == [linked EXCEPT !.event_hash = None, !.signature = None]
    IN  [reset EXCEPT !.event_hash = hash(reset)]

\* what is signed: the serialized event with its signature set to None
signed_bytes(e) == [e EXCEPT !.signature = None]

\* ProjectEvent.sign, by the key the event was created with
sign(e, key) == [e EXCEPT !.signature = [by |-> key, over |-> signed_bytes(e)]]

\* ProjectEvent.valid
valid(e) ==
    /\ e.signature # None
    /\ e.signature.by = e.creator_verify_key
    /\ e.signature.over = signed_bytes(e)

\* ProjectEvent.valid_descendant
valid_descendant(e, prev_event) ==
    LET prev_event_id == IF prev_event # None THEN prev_event.id ELSE PROJECT_ID
        prev_event_hash == IF prev_event # None THEN prev_event.event_hash
                           ELSE start_hash
        prev_seq_no == IF prev_event # None THEN prev_event.seq_no ELSE 0
    IN  /\ valid(e)
        /\ e.prev_event_uid = prev_event_id
        /\ e.prev_event_hash = prev_event_hash
        /\ e.seq_no = prev_seq_no + 1
        /\ e.project_id = PROJECT_ID

\* NewProject.validate_events
validate_events(events) ==
    \A i \in DOMAIN events :
        valid_descendant(events[i], IF i = 1 THEN None ELSE events[i - 1])

\* NewProject.get_last_seq_no
get_last_seq_no(events) == Len(events)

\* what a call gives back
SyftSuccess == [kind |-> "SyftSuccess"]
SyftError == [kind |-> "SyftError"]
SyftNotReady == [kind |-> "SyftNotReady"]

\* the leader's broadcast_event, as append_event takes its answers: not ready
\* for a node that is behind the leader's log, an error for an event that does
\* not continue the log, the event appended otherwise
broadcast_event(events, e) ==
    IF e.seq_no <= Len(events)
    THEN [result |-> SyftNotReady, events |-> events]
    ELSE IF ~valid_descendant(e, last_of(events))
    THEN [result |-> SyftError, events |-> events]
    ELSE [result |-> SyftSuccess, events |-> Append(events, e)]

\* the leader's sync: its events after the first seq_no ones
unsynced_events(events, seq_no) == SubSeq(events, seq_no + 1, Len(events))

\* variant: an event whose id is in event_id_hashmap is added again
add_event_again(proj, e, key) ==
    [kind |-> "append_event",
     event |-> sign(rebase([e EXCEPT !.creator_verify_key = key], proj.events), key),
     depth |-> 0]

\* NewProject.add_event, up to its call of append_event
add_event(proj, e, key) ==
    IF e.id \in proj.event_id_hashmap
    THEN [kind |-> "ended", result |-> Raise("EventAlreadyAddedException")]
    ELSE [kind |-> "append_event",
          event |-> sign(rebase([e EXCEPT !.creator_verify_key = key], proj.events),
                         key),
          depth |-> 0]

\* an add_event call can begin: none is under way
Idle == adding.kind \in {"nocall", "ended"}

\* the ids of the events made so far, and the id of the next one (UID())
UsedIds ==
    {leader[i].id : i \in DOMAIN leader}
        \cup (IF adding.kind \in {"append_event", "sync"} THEN {adding.event.id} ELSE {})
NextId == IF UsedIds = {} THEN 1 ELSE 1 + CHOOSE i \in UsedIds : \A j \in UsedIds : j <= i

beyond_project == <<future_vars, member_files, identity_vars, sync_vars, manager_vars>>

\* the node calls project.add_event with a new event, or with one it has added
AddEvent ==
    /\ Idle
    /\ Len(leader) < MaxEvents
    /\ \E id \in {NextId} \cup project.event_id_hashmap :
          adding' = add_event(project, NewEvent(id), NODE_KEY)
    /\ UNCHANGED <<project, leader, beyond_project>>

\* one call of append_event, up to the answer of the leader: the leader cannot be
\* reached (an error), or gives the answer of broadcast_event
AppendEvent ==
    /\ adding.kind = "append_event"
    /\ LET event == adding.event
           prev_event == last_of(project.events)
           answer == broadcast_event(leader, event)
       IN  IF ~valid_descendant(event, prev_event)
           THEN /\ adding' = [kind |-> "ended", result |-> SyftError]
                /\ UNCHANGED <<project, leader>>
           ELSE \/ /\ adding' = [kind |-> "ended", result |-> SyftError]
                   /\ UNCHANGED <<project, leader>>
                \/ /\ answer.result = SyftError
                   /\ adding' = [kind |-> "ended", result |-> SyftError]
                   /\ UNCHANGED <<project, leader>>
                \/ /\ answer.result = SyftNotReady
                   /\ adding' = [adding EXCEPT !.kind = "sync"]
                   /\ UNCHANGED <<project, leader>>
                \/ /\ answer.result = SyftSuccess
                   /\ leader' = answer.events
                   /\ project' =
                         [events |-> Append(project.events, event),
                          event_id_hashmap |-> project.event_id_hashmap \cup {event.id}]
                   /\ adding' = [kind |-> "ended", result |-> SyftSuccess]
    /\ UNCHANGED beyond_project

\* self.sync(), whose result is not looked at, then rebase, sign and the nested
\* append_event call, which the interpreter refuses beyond its recursion limit
Sync ==
    /\ adding.kind = "sync"
    /\ \E reached \in BOOLEAN :
          LET got == IF reached
                     THEN unsynced_events(leader, get_last_seq_no(project.events))
                     ELSE <<>>
              events == project.events \o got
              event == sign(rebase(adding.event, events), NODE_KEY)
          IN  /\ project' =
                    [events |-> events,
                     event_id_hashmap |->
                         project.event_id_hashmap \cup {got[i].id : i \in DOMAIN got}]
              /\ adding' =
                    IF adding.depth < MaxRetries
                    THEN [kind |-> "append_event", event |-> event,
                          depth |-> adding.depth + 1]
                    ELSE [kind |-> "ended", result |-> Raise("RecursionError")]
    /\ UNCHANGED <<leader, beyond_project>>

\* another node's add_event is accepted by the leader
OtherAdds ==
    /\ Len(leader) < MaxEvents
    /\ LET event == sign(rebase([NewEvent(NextId) EXCEPT
                                    !.creator_verify_key = OTHER_KEY], leader),
                         OTHER_KEY)
       IN  leader' = broadcast_event(leader, event).events
    /\ leader' # leader
    /\ UNCHANGED <<project, adding, beyond_project>>

ProjectInit == Init /\ future = [expires |-> 0]

ProjectNext == AddEvent \/ AppendEvent \/ Sync \/ OtherAdds

SpecProject == ProjectInit /\ [][ProjectNext]_vars

----------------------------------------------------------------------------
\* Properties of resolve(). In a state with Called, `pre` holds the files and
\* the clock the call found, `ret` its result and `files` the files it left.

Called == pre.kind = "call"

\* r is a response with status code s
Is(r, s) == r.kind = "response" /\ r.status_code = s

\* r is a response that resolve() built itself
IsSystem(r, s) == Is(r, s) /\ r.sender = "SYSTEM"

\* the call found a response file and no rejection marker
FoundResponse == Called /\ exists(pre.files.response) /\ ~pre.files.rejected

\* the call found neither a response file nor a rejection marker
FoundNoAnswer == Called /\ ~exists(pre.files.response) /\ ~pre.files.rejected

\* the call left neither the request nor the response file
BothGone == ~exists(files.request) /\ ~exists(files.response)

\* C1 as stated: a resolve() that finds a response file (holding a response) and
\* no rejection marker returns the response stored in the file, and leaves neither
\* the request nor the response file.
C1_ReturnsStoredResponse ==
    (FoundResponse /\ loads(pre.files.response))
        => ret = pre.files.response /\ BothGone

\* C1, amended: a resolve() that finds a response file and no rejection marker
\* leaves neither the request nor the response file; it returns the stored response
\* when that is well-formed and not past its own expiry, the stored response with
\* status 419 when it is past its expiry, and a 500 built by resolve() when the
\* content is malformed.
C1_ResponseConsumed ==
    FoundResponse =>
        /\ BothGone
        /\ (loads(pre.files.response) /\ pre.now <= pre.files.response.expires)
               => ret = pre.files.response
        /\ (loads(pre.files.response) /\ pre.now > pre.files.response.expires)
               => ret = [pre.files.response EXCEPT !.status_code = SYFT_419_EXPIRED]
        /\ ~loads(pre.files.response) => IsSystem(ret, SYFT_500_SERVER_ERROR)

C1_Witness ==
    /\ FoundResponse
    /\ exists(pre.files.request)
    /\ loads(pre.files.response)
    /\ pre.now <= pre.files.response.expires
    /\ ret = pre.files.response
    /\ BothGone

\* C2: a resolve() that finds a request file that is not expired, no response file
\* and no rejection marker returns None and leaves every file as it was.
C2_PendingLeavesFiles ==
    (FoundNoAnswer /\ loads(pre.files.request) /\ pre.now <= pre.files.request.expires)
        => ret = None /\ files = pre.files

C2_Witness ==
    /\ FoundNoAnswer
    /\ loads(pre.files.request)
    /\ pre.now <= pre.files.request.expires
    /\ ret = None
    /\ exists(files.request)

\* C3: a resolve() that finds the rejection marker returns a 403 and leaves neither
\* the request file nor the marker, also when a response file is present.
C3_RejectedFirst ==
    (Called /\ pre.files.rejected)
        => Is(ret, SYFT_403_FORBIDDEN) /\ ~exists(files.request) /\ ~files.rejected

C3_Witness ==
    /\ Called
    /\ pre.files.rejected
    /\ exists(pre.files.response)
    /\ exists(pre.files.request)
    /\ Is(ret, SYFT_403_FORBIDDEN)

\* C4: a resolve() that finds no request file, no response file and no rejection
\* marker returns a 404 and creates or deletes no file.
C4_MissingIs404 ==
    (FoundNoAnswer /\ ~exists(pre.files.request))
        => Is(ret, SYFT_404_NOT_FOUND) /\ files = pre.files

C4_Witness ==
    /\ FoundNoAnswer
    /\ ~exists(pre.files.request)
    /\ Is(ret, SYFT_404_NOT_FOUND)
    /\ files = [request |-> NoFile, response |-> NoFile, rejected |-> FALSE]

\* C5 as stated: with a (well-formed) request file, no response file and no marker,
\* resolve() returns a 419 and deletes the request file when the clock is past the
\* future's own `expires`, and returns no 419 while the clock is not past it.
C5_ExpiredByFuture ==
    (FoundNoAnswer /\ loads(pre.files.request)) =>
        IF pre.now > future.expires
        THEN Is(ret, SYFT_419_EXPIRED) /\ ~exists(files.request)
        ELSE ~Is(ret, SYFT_419_EXPIRED)

\* C5, amended: with no response file and no marker, resolve() returns a 419 of its
\* own exactly when the request file holds a request whose `expires` the clock is
\* past, and then the request file is deleted.
C5_ExpiredByRequest ==
    FoundNoAnswer =>
        /\ IsSystem(ret, SYFT_419_EXPIRED)
               <=> (loads(pre.files.request) /\ pre.now > pre.files.request.expires)
        /\ IsSystem(ret, SYFT_419_EXPIRED) => ~exists(files.request)

C5_Witness ==
    /\ FoundNoAnswer
    /\ loads(pre.files.request)
    /\ pre.now > pre.files.request.expires
    /\ pre.now <= future.expires
    /\ IsSystem(ret, SYFT_419_EXPIRED)
    /\ ~exists(files.request)

\* a result that ends the future: the response, a 403 or a 419
IsTerminal(r) ==
    r.kind = "response"
    /\ r.status_code \in {SYFT_200_OK, SYFT_403_FORBIDDEN, SYFT_419_EXPIRED}

\* C6: once a resolve() has returned a terminal result, the next resolve(), with
\* no step of anyone in between, returns the same status and body and deletes
\* nothing.
C6_TerminalSticky ==
    [][(Called /\ IsTerminal(ret) /\ pre'.kind = "call")
          => /\ ret'.kind = "response"
             /\ ret'.status_code = ret.status_code
             /\ ret'.body = ret.body
             /\ files' = files]_vars

\* C7: after a resolve() that returned a terminal result, neither the request file
\* nor the response file exists.
C7_TerminalCleansBoth ==
    (Called /\ IsTerminal(ret)) => BothGone

\* C8: resolve() returns a response with an error status, and raises nothing, when
\* it finds the rejection marker (403), an expired request (419), no file at all
\* (404) or a malformed response file (500); in the last case it leaves neither the
\* request nor the response file.
C8_FailuresAreResponses ==
    Called =>
        /\ pre.files.rejected => IsSystem(ret, SYFT_403_FORBIDDEN)
        /\ (FoundNoAnswer /\ loads(pre.files.request)
                /\ pre.now > pre.files.request.expires)
               => IsSystem(ret, SYFT_419_EXPIRED)
        /\ (FoundNoAnswer /\ ~exists(pre.files.request))
               => IsSystem(ret, SYFT_404_NOT_FOUND)
        /\ (FoundResponse /\ pre.files.response = Malformed)
               => IsSystem(ret, SYFT_500_SERVER_ERROR) /\ BothGone

C8_Witness ==
    /\ FoundResponse
    /\ pre.files.response = Malformed
    /\ exists(pre.files.request)
    /\ IsSystem(ret, SYFT_500_SERVER_ERROR)
    /\ BothGone

----------------------------------------------------------------------------
\* Properties of wait() and gather_completed(). In a state with Over, `outcome`
\* holds the arguments and the result of the call that just ended.

Over == outcome.kind = "ended"

Running == {"wait_loop", "wait_sleep", "gather_loop"}

\* a timeout that is not None and <= 0, or a poll_interval <= 0
BadArguments(t, p) == (t.some /\ ~(t.val > 0)) \/ ~(p > 0)

\* C9: wait() and gather_completed() called with a timeout <= 0 or a poll_interval
\* <= 0 end with ValueError, so that no loop runs with such arguments; and the step
\* that ends with ValueError is the call's first, calls no resolve(), and leaves
\* the files and the clock as they were.
C9_InvalidArgumentsRejected ==
    /\ [](/\ (Over /\ BadArguments(outcome.timeout, outcome.poll_interval))
                => outcome.result.kind = "ValueError"
          /\ pc \in Running => ~BadArguments(timeout, poll_interval))
    /\ [][(outcome'.kind = "ended" /\ outcome'.result.kind = "ValueError")
             => /\ pc = "idle" /\ pc' = "idle"
                /\ BadArguments(outcome'.timeout, outcome'.poll_interval)
                /\ pre' = NoCall
                /\ files' = files
                /\ now' = now]_vars

C9_Witness ==
    /\ Over
    /\ outcome.op = "gather"
    /\ outcome.result.kind = "ValueError"
    /\ ~outcome.timeout.some
    /\ outcome.poll_interval = 0
    /\ exists(files.request)
    /\ exists(files.response)

\* C10: a wait() that ends with SyftTimeoutError has deleted no file: every poll
\* that found the future pending left the request file and all files as they were,
\* and the step that raises leaves the files; a resolve() made after it that finds
\* a well-formed, unexpired response file and no marker returns that response.
C10_TimeoutAbandonsFuture ==
    /\ [](/\ (Over /\ outcome.result.kind = "SyftTimeoutError")
                => outcome.result.unlinked = 0
          /\ (pc = "wait_sleep" /\ Called)
                => ret = None /\ files = pre.files /\ exists(files.request)
          /\ (abandoned /\ pc = "idle" /\ FoundResponse /\ loads(pre.files.response)
                /\ pre.now <= pre.files.response.expires)
                => ret = pre.files.response)
    /\ [][(outcome'.kind = "ended" /\ outcome'.result.kind = "SyftTimeoutError")
             => files' = files /\ abandoned']_vars

C10_Witness ==
    /\ abandoned
    /\ pc = "idle"
    /\ FoundResponse
    /\ exists(pre.files.request)
    /\ ret = pre.files.response

\* C11: gather_completed() called with valid arguments polls its pending members
\* and ends by returning the responses it collected, never by raising: also when
\* the deadline passes with members still pending.
C11_GatherReturnsCollected ==
    (Over /\ outcome.op = "gather"
          /\ ~BadArguments(outcome.timeout, outcome.poll_interval))
        => outcome.result.kind = "returned"

\* the response gather_completed collects from member m
MemberResponse(m) == [kind |-> "response", member |-> m]

\* rs holds the response of member a before the response of member b
Before(rs, a, b) ==
    \E i, j \in DOMAIN rs :
        i < j /\ rs[i] = MemberResponse(a) /\ rs[j] = MemberResponse(b)

\* C12: gather_completed() returns the responses in the order of `futures`: when
\* its loop runs without a deadline over several members whose response files are
\* all written, the call ends by returning a list in which, for any two different members, the response of the
\* one that is earlier in `futures` comes before the response of the later one.
C12_InFuturesOrder ==
    [][(/\ pc = "gather_loop" /\ pc' = "idle"
        /\ deadline.inf
        /\ Cardinality(pending) > 1
        /\ \A m \in pending : member_files[m])
       => /\ outcome'.kind = "ended"
          /\ outcome'.result.kind = "returned"
          /\ \A i, j \in DOMAIN futures :
                (i < j /\ futures[i] # futures[j])
                    => Before(outcome'.result.responses, futures[i], futures[j])]_vars

----------------------------------------------------------------------------
\* Properties of the identities. In a state with Identified, `idents` holds the
\* identities of the two objects of `subject`.

Identified == idents.kind = "identities"

\* C13: two requests with equal sender, url, method, headers and body have the
\* same get_message_id() and the same get_message_hash(), whatever their
\* created, expires and id are.
C13_IdentityFromContent ==
    (/\ Identified
     /\ subject.kind = "messages"
     /\ subject.a.sender = subject.b.sender
     /\ subject.a.url = subject.b.url
     /\ subject.a.method = subject.b.method
     /\ subject.a.body = subject.b.body
     /\ SameDict(subject.a.headers, subject.b.headers))
        => /\ idents.id[1] = idents.id[2]
           /\ idents.hash[1] = idents.hash[2]

\* how many times member m is in the list fl
Count(fl, m) == Cardinality({i \in DOMAIN fl : fl[i] = m})

\* C14: the id of a bulk future depends only on which members it has: two bulk
\* futures holding the same members, listed in different orders, have the same id.
C14_BulkIdFromMemberSet ==
    (/\ Identified
     /\ subject.kind = "bulks"
     /\ \A m \in BulkMembers : Count(subject.a, m) = Count(subject.b, m))
        => idents.id[1] = idents.id[2]

----------------------------------------------------------------------------
\* Properties of the server's handlers. In a state with Handled(op), `call` holds
\* the request, the store the handler found (`before`) and its reply, and `store`
\* the store it left.

Handled(op) == call.kind = "call" /\ call.op = op

\* the handler failed and did not touch the store
Rejected == call.status >= 400 /\ ~call.put /\ store = call.before

\* the content apply_diff reconstructs in the call just made
Reconstructed == rsync_apply(call.before[call.req.path], call.req.diff)

\* C15: when the content apply_diff reconstructs from the stored file and the
\* diff has a hash other than expected_hash, apply_diff fails with an error, and
\* the store (content and, no put having run, metadata) is as before the call.
C15_HashMismatchLeavesFile ==
    (/\ Handled("apply_diff")
     /\ exists(call.before[call.req.path])
     /\ sha256(Reconstructed) # call.req.expected_hash)
        => Rejected

C15_Witness ==
    /\ Handled("apply_diff")
    /\ exists(call.before[call.req.path])
    /\ call.req.diff.base = call.before[call.req.path]
    /\ sha256(Reconstructed) # call.req.expected_hash
    /\ call.status = 400
    /\ store = call.before

\* C16: no handler stores invalid content in a permission file: apply_diff on a
\* permission file whose reconstructed content is no valid rule is rejected, also
\* when its hash is expected_hash; create of a permission file with invalid
\* content is rejected; both leave the store as it was.
C16_PermissionFileValidated ==
    /\ (/\ Handled("apply_diff")
        /\ is_permission_file(call.req.path)
        /\ exists(call.before[call.req.path])
        /\ ~is_valid(Reconstructed))
            => Rejected
    /\ (/\ Handled("create")
        /\ is_permission_file(call.req.path)
        /\ ~is_valid(call.req.contents))
            => Rejected
    /\ call.kind = "call"
            => \A p \in StorePaths :
                    (is_permission_file(p) /\ exists(store[p]) /\ ~is_valid(store[p]))
                        => store[p] = call.before[p]

C16_Witness ==
    /\ Handled("apply_diff")
    /\ is_permission_file(call.req.path)
    /\ is_valid(call.before[call.req.path])
    /\ ~is_valid(Reconstructed)
    /\ sha256(Reconstructed) = call.req.expected_hash
    /\ call.status = 400
    /\ store = call.before

\* C17: a write (apply_diff or create) submitted by an identity to which the
\* nearest permission rule of the target path does not grant write leaves the
\* stored content of that path as it was.
C17_WriteNeedsPermission ==
    (/\ call.kind = "call"
     /\ call.op \in {"apply_diff", "create"}
     /\ call.req.path \in StorePaths
     /\ permission_for_path(call.before, call.req.path) # NoRule
     /\ ~can_write(call.who, permission_for_path(call.before, call.req.path)))
        => store[call.req.path] = call.before[call.req.path]

\* the permission tree of the whole store lets identity i read path p
Readable(st, i, p) == can_read(i, permission_for_path(st, p))

\* C18: dir_state and datasite_states return to an identity only metadata of
\* paths that the permission tree lets that identity read.
C18_OnlyReadableMetadata ==
    /\ (Handled("dir_state") /\ call.status = 200)
            => \A m \in call.result : Readable(call.before, call.who, m.path)
    /\ Handled("datasite_states")
            => \A ds \in DOMAIN call.result :
                    \A m \in call.result[ds] :
                        Readable(call.before, call.who, m.path)

C18_Witness ==
    /\ Handled("dir_state")
    /\ call.status = 200
    /\ call.result # {}
    /\ \E p \in StorePaths :
            /\ under(p, call.req.dir)
            /\ exists(call.before[p])
            /\ ~Readable(call.before, call.who, p)
            /\ \A m \in call.result : m.path # p

\* a permission file stored below directory d holds no valid rule
MalformedBelow(st, d) ==
    \E p \in StorePaths :
        under(p, d) /\ is_permission_file(p) /\ exists(st[p]) /\ ~is_valid(st[p])

\* the datasites of the store
DatasitesOf(st) == {p[1] : p \in {q \in StorePaths : exists(st[q])}}

\* C19: the server's permission tree is strict: when a permission file below the
\* requested directory is malformed, dir_state fails with an error and returns
\* no metadata; datasite_states leaves that datasite out of its result and
\* returns the state of every other datasite.
C19_StrictPermissionTree ==
    /\ (Handled("dir_state") /\ MalformedBelow(call.before, call.req.dir))
            => /\ call.status = 500
               /\ call.result = Detail("Failed to parse permission tree")
               /\ store = call.before
    /\ Handled("datasite_states")
            => /\ call.status = 200
               /\ DOMAIN call.result =
                    {ds \in DatasitesOf(call.before) : ~MalformedBelow(call.before, <<ds>>)}

C19_Witness ==
    /\ Handled("datasite_states")
    /\ MalformedBelow(call.before, <<"ds">>)
    /\ "ds" \notin DOMAIN call.result
    /\ "other" \in DOMAIN call.result
    /\ call.result["other"] # {}

----------------------------------------------------------------------------
\* Properties of delete.

\* there is no entry at path p of the folder t
NotThere(t, p) == t[p].kind = "absent" \/ \E q \in ancestors(p) : t[q].kind # "dir"

\* C20: delete is idempotent: FileChange.delete of a path that does not exist
\* returns True (success), raises nothing and leaves the folder as it was; the
\* server's delete of a path that is not stored replies success and leaves the
\* store as it was.
C20_DeleteIdempotent ==
    /\ (Handled("FileChange.delete") /\ NotThere(call.before, call.req.path))
            => /\ call.result = [kind |-> "bool", val |-> TRUE]
               /\ tree = call.before
    /\ (Handled("delete") /\ ~exists(call.before[call.req.path]))
            => /\ call.status = 200
               /\ store = call.before

----------------------------------------------------------------------------
\* Properties of the sync manager. `iteration` holds what the running
\* iteration did so far: what the fetch gave, the changes enqueued, the
\* datasites whose diff raised, and what the consumer was handed and applied.

\* get_datasite_states has just returned
StatesBuilt == iteration.fetch.kind # "none" /\ datasite_states.at = 1

OwnWithNothingRemote == DatasiteState(OWN, EmptySnapshot)

\* C21: the datasite states the manager builds always hold the own datasite:
\* when the fetch raises they are the own datasite alone, with an empty remote
\* state; when the fetch answers without the own datasite, the own datasite is
\* added with an empty remote state to what was answered; and the thread goes
\* on to enqueue: the failure of the fetch is not raised further
C21_OwnDatasiteAlwaysThere ==
    StatesBuilt =>
        LET states == datasite_states.states
            fetched == iteration.fetch
        IN  /\ Cardinality({i \in DOMAIN states : states[i].email = OWN}) = 1
            /\ fetched.kind = "raise" => states = <<OwnWithNothingRemote>>
            /\ fetched.kind = "dict" /\ OWN \notin emails(fetched.items) =>
                   /\ Len(states) = Len(fetched.items) + 1
                   /\ \A i \in DOMAIN fetched.items : states[i] = fetched.items[i]
                   /\ states[Len(states)] = OwnWithNothingRemote
            /\ loop = "enqueue_datasite_changes"

C21_Witness ==
    /\ StatesBuilt
    /\ iteration.fetch.kind = "raise"
    /\ remote_state[<<OWN, "f">>] # NoHash

\* the members of a sequence
Range(seq) == {seq[i] : i \in DOMAIN seq}

\* the changes of a datasite state that are out of sync
OutOfSync(datasite) ==
    LET found == get_out_of_sync_files(datasite, local_state)
    IN  Range(found.permission_changes) \cup Range(found.file_changes)

\* C22: when the diff of a datasite raises, no change of that datasite is
\* enqueued in the iteration and the thread goes on: once every datasite was
\* gone through, the changes of the datasites whose diff did not raise are all
\* in the queue, and after consume_all they have been handed to the consumer
C22_DiffFailureIsolated ==
    LET states == datasite_states.states
        queued == {queue[i].data : i \in DOMAIN queue}
    IN  /\ loop = "dead" =>
               states[datasite_states.at - 1].email \notin iteration.failed
        /\ loop = "consume_all" =>
               \A i \in DOMAIN states :
                   IF states[i].email \in iteration.failed
                   THEN \A c \in queued : c.path[1] # states[i].email
                   ELSE OutOfSync(states[i]) \subseteq queued
        /\ loop = "sleep" =>
               /\ Range(iteration.enqueued) \subseteq Range(iteration.handed)
               /\ \A c \in Range(iteration.handed) : c.path[1] \notin iteration.failed

\* the diff of the own datasite raised; the change of the peer was applied
C22_Witness ==
    /\ loop = "sleep"
    /\ iteration.failed = {OWN}
    /\ local_state[<<OWN, "f">>] # remote_state[<<OWN, "f">>]
    /\ \E i \in DOMAIN iteration.applied : iteration.applied[i].path[1] = PEER

\* C23: nothing in an iteration ends the thread of the manager: whatever
\* fails while the datasite states are built, a diff is computed, a change is
\* enqueued or a change is applied, the thread is never dead
C23_DaemonNeverStops == loop # "dead"

\* C24: an iteration enqueues the changes of every datasite before the consumer
\* is handed anything; when consume_all has returned the queue is empty and
\* each change enqueued in the iteration was handed to the consumer once
C24_EnqueueThenDrain ==
    /\ iteration.handed # <<>> =>
           /\ loop = "sleep"
           /\ datasite_states.at > Len(datasite_states.states)
    /\ loop = "sleep" =>
           /\ queue = <<>>
           /\ \A c \in Changes :
                  Count(iteration.handed, c) = Count(iteration.enqueued, c)
           /\ \A c \in Range(iteration.enqueued) : Count(iteration.handed, c) = 1

\* changes of both datasites were enqueued and handed to the consumer
C24_Witness ==
    /\ loop = "sleep"
    /\ \E i, j \in DOMAIN iteration.handed :
           /\ iteration.handed[i].path[1] = OWN
           /\ iteration.handed[j].path[1] = PEER

\* in `changes` every permission change comes before the changes of other files
\* of the same datasite
PermissionsFirst(changes) ==
    \A i, j \in DOMAIN changes :
        /\ is_permission_file(changes[i].path)
        /\ ~is_permission_file(changes[j].path)
        /\ changes[i].path[1] = changes[j].path[1]
        => i < j

\* C25: when the diff of a datasite holds a permission change and a content
\* change, the permission change is enqueued before the content change, handed
\* to the consumer before it and applied before it
C25_PermissionChangesFirst ==
    /\ PermissionsFirst(iteration.enqueued)
    /\ PermissionsFirst(iteration.handed)
    /\ PermissionsFirst(iteration.applied)

\* the permission file and the other file of the own datasite were both applied
C25_Witness ==
    /\ loop = "sleep"
    /\ \E i, j \in DOMAIN iteration.applied :
           /\ iteration.applied[i].path = <<OWN, PERM_FILE>>
           /\ iteration.applied[j].path = <<OWN, "f">>

\* the changes of `changes` of the priority k, in their order
OfPriority(changes, k) ==
    LET has(c) == get_priority(c) = k
    IN  SelectSeq(changes, has)

QueueDrained == loop = "none" /\ iteration.handed # <<>>

\* C26: the queue hands its items out by priority class, permission files
\* before small files before large files, and items of the same priority in the
\* order they were enqueued
C26_PriorityThenFifo ==
    QueueDrained =>
        /\ \A i, j \in DOMAIN iteration.handed :
               i < j => get_priority(iteration.handed[i])
                            <= get_priority(iteration.handed[j])
        /\ \A k \in {0, SMALL, LARGE} :
               OfPriority(iteration.handed, k) = OfPriority(iteration.enqueued, k)

\* a large file was enqueued before a permission file and handed out after it
C26_Witness ==
    /\ QueueDrained
    /\ Len(iteration.enqueued) = 2
    /\ get_priority(iteration.enqueued[1]) = LARGE
    /\ get_priority(iteration.enqueued[2]) = 0
    /\ iteration.handed[1] = iteration.enqueued[2]

\* the places of `seq` whose member is about the path p
About(seq, p) == {i \in DOMAIN seq : seq[i].path = p}

Detected == call.kind = "call" /\ call.op = "diff"

\* the snapshots of the example: a is the same on both sides, b differs, c is
\* on the remote side only
PathA == SyncOrder[1]
PathB == SyncOrder[2]
PathC == SyncOrder[3]
ExampleLocal == (PathA :> 1) @@ (PathB :> 1) @@ (PathC :> NoHash)
ExampleRemote == (PathA :> 1) @@ (PathB :> 2) @@ (PathC :> 1)

\* C28: the detector classifies each path from the two snapshots alone: on the
\* remote side only gives one create, on both sides with different hashes
\* gives one write, the same hash on both sides or on neither side gives no
\* change; the snapshots of the example give exactly [write b, create c]
C28_DetectorClassifies ==
    Detected =>
        /\ \A p \in SyncPaths :
               LET l == local_state[p]
                   r == remote_state[p]
                   found == {call.result[i] : i \in About(call.result, p)}
               IN  /\ Cardinality(About(call.result, p)) <= 1
                   /\ l = NoHash /\ r # NoHash => found = {FileChangeInfo("create", p)}
                   /\ l # NoHash /\ r # NoHash /\ l # r =>
                          found = {FileChangeInfo("write", p)}
                   /\ l = r => found = {}
        /\ local_state = ExampleLocal /\ remote_state = ExampleRemote =>
               call.result = <<FileChangeInfo("write", PathB),
                               FileChangeInfo("create", PathC)>>

C28_Witness ==
    /\ Detected
    /\ local_state = ExampleLocal
    /\ remote_state = ExampleRemote

\* the directories above the path p that hold a rule in the store st
RuledAbove(st, p) == {d \in Dirs : under(p, d) /\ has_rule(st, d)}

\* C29: the permissions of a path are the rule of the nearest directory above
\* it that holds a rule, as it stands, and nothing of the rules further up or
\* elsewhere; storing a rule in a directory that is not above the path leaves
\* the permissions of the path as they were
C29_NearestRuleOnly ==
    /\ \A p \in StorePaths :
           LET ruled == RuledAbove(store, p)
           IN  IF ruled = {} THEN permission_for_path(store, p) = NoRule
               ELSE \E d \in ruled :
                       /\ \A e \in ruled : Len(e) <= Len(d)
                       /\ permission_for_path(store, p) = store[perm_path(d)]
    /\ Handled("create") /\ call.put /\ is_permission_file(call.req.path) =>
           \A p \in StorePaths :
               ~under(p, dir_of(call.req.path)) =>
                   permission_for_path(store, p)
                       = permission_for_path(call.before, p)

\* an admin-only rule was stored in ds/private under a shared ds: the files of
\* ds/private changed their permissions, the permission file of ds did not
C29_Witness ==
    /\ Handled("create")
    /\ call.put
    /\ call.req.path = <<"ds", "private", PERM_FILE>>
    /\ call.req.contents = AdminOnly
    /\ call.before[<<"ds", "private", PERM_FILE>>] = NoFile
    /\ store[<<"ds", PERM_FILE>>] = Shared
    /\ permission_for_path(store, <<"ds", "private", "x">>) = AdminOnly
    /\ permission_for_path(call.before, <<"ds", "private", "x">>) = Shared

\* C30: a write of a file is atomic with respect to crashes: after write_to
\* was called for a path, whether it ran to its end or the process was killed
\* in it, the path holds what it held before or the whole of the new data,
\* never a file cut short
C30_WriteAtomic ==
    (call.kind = "call" /\ call.op = "FileChange.write_to") =>
        \/ tree[call.req.path] = call.before[call.req.path]
        \/ tree[call.req.path] = File(call.req.data)

\* both sides hold the same files
InSync == local_state = remote_state

\* C31: when nobody changes the files and nothing fails, after finitely many
\* iterations the local and the remote side agree on every path, and from
\* then on no iteration enqueues a change
C31_EventuallyConsistent == <>[](InSync /\ iteration.enqueued = <<>>)

\* an iteration has brought files of both datasites in sync
C31_Witness ==
    /\ loop = "sleep"
    /\ InSync
    /\ \E i, j \in DOMAIN iteration.applied :
           /\ iteration.applied[i].path[1] = OWN
           /\ iteration.applied[j].path[1] = PEER

\* what the snapshot is to leave out: files below an ignored folder at any
\* depth, .DS_Store anywhere, the Icon marker directly in the folder walked
Ignored(p, ignore_folders) ==
    \/ ignore_folders # NoneT /\
           \E i \in DOMAIN ignore_folders.val, k \in 1..(Len(p) - 1) :
               p[k] = ignore_folders.val[i]
    \/ p[Len(p)] = DS_STORE
    \/ Len(p) = 1 /\ startswith(p[1], ICON_FILE)

\* C32: the snapshot hash_dir returns holds exactly the files of the folder
\* that are not ignored: none below an ignored folder at any depth, no
\* .DS_Store, no Icon marker of the top level, and every other file, an Icon
\* file of a nested folder included
C32_SnapshotLeavesOutIgnored ==
    Handled("hash_dir") =>
        DOMAIN call.result =
            {p \in WalkPaths : /\ call.req.folder[p] # NoHash
                               /\ ~Ignored(p, call.req.ignore_folders)}

\* C33: resolve() is safe against the removal of the files by others: when
\* the request or the response file is removed between two of its steps, the
\* call still returns a response or pending; it never raises for a file that
\* is not there
C33_ResolveSurvivesRemoval ==
    ret.kind = "raise" => ret.exc # "FileNotFoundError"

\* C34: however often start() is called on one manager, at most one thread
\* runs its sync loop at any time
C34_OneLoopThread == threads <= 1

\* the call found a response file whose response is past its own expiry
FoundExpiredResponse ==
    Called /\ loads(pre.files.response) /\ pre.now > pre.files.response.expires

\* the stored response, only its status code changed to 419, and both files gone
ExpiredResponseGiven ==
    /\ ret = [pre.files.response EXCEPT !.status_code = SYFT_419_EXPIRED]
    /\ BothGone

\* C36 as stated: a resolve() that finds a response file whose response is past
\* its own expiry returns that response with only the status code changed to 419
\* and leaves neither the request nor the response file.
C36_ExpiredResponseReturned == FoundExpiredResponse => ExpiredResponseGiven

\* C36, amended: a resolve() that finds no rejection marker and a response file
\* whose response is past its own expiry returns that response with only the
\* status code changed to 419 and leaves neither the request nor the response
\* file; with a rejection marker the call returns the 403 and keeps the response.
C36_ExpiredResponseUnlessRejected ==
    /\ (FoundExpiredResponse /\ ~pre.files.rejected) => ExpiredResponseGiven
    /\ (FoundExpiredResponse /\ pre.files.rejected)
           => IsSystem(ret, SYFT_403_FORBIDDEN) /\ files.response = pre.files.response

C36_Witness ==
    /\ FoundExpiredResponse
    /\ ~pre.files.rejected
    /\ exists(pre.files.request)
    /\ Is(ret, SYFT_419_EXPIRED)
    /\ ret.body = pre.files.response.body
    /\ BothGone

\* a wait() without a timeout is under way
WaitingForever == pc \in {"wait_loop", "wait_sleep"} /\ timeout = NoneT

\* a wait() without a timeout did not end in a timeout error
NoTimeoutError ==
    (outcome.kind = "ended" /\ outcome.op = "wait" /\ outcome.timeout = NoneT)
        => outcome.result.kind # "SyftTimeoutError"

\* a poll of wait() that found the request past its expiry, and neither a response
\* nor a marker, did not go to sleep: the call ended with the 419
ExpiryEndsWait ==
    (FoundNoAnswer /\ loads(pre.files.request) /\ pre.now > pre.files.request.expires)
        => pc = "idle" /\ IsSystem(ret, SYFT_419_EXPIRED)

MembersOf(fl) == {fl[i] : i \in DOMAIN fl}

\* rs holds at most one response of each member
OnePerMember(rs) ==
    \A i, j \in DOMAIN rs : (rs[i].kind = "response" /\ rs[i] = rs[j]) => i = j

C38_ApplyDiffResult ==
    /\ (Handled("apply_diff") /\ call.status < 400)
           => /\ exists(call.before[call.req.path])
              /\ store = [call.before EXCEPT ![call.req.path] = Reconstructed]
              /\ call.result.current_hash = call.req.expected_hash
              /\ call.result.current_hash = sha256(store[call.req.path])
              /\ call.result.previous_hash = sha256(call.before[call.req.path])
    /\ (Handled("apply_diff") /\ ~exists(call.before[call.req.path]))
           => /\ call.status = 404
              /\ store = call.before

C38_Witness ==
    /\ Handled("apply_diff")
    /\ call.status = 200
    /\ exists(call.before[call.req.path])
    /\ store[call.req.path] = call.req.diff.target
    /\ store[call.req.path] # call.before[call.req.path]
    /\ call.result.previous_hash # call.result.current_hash

----------------------------------------------------------------------------
\* Properties of the project's event log.

\* the events are a hash chain from the project's id and start_hash
HashChain(events) ==
    /\ \A i \in DOMAIN events :
          /\ events[i].seq_no = i
          /\ events[i].prev_event_uid = IF i = 1 THEN PROJECT_ID ELSE events[i - 1].id
          /\ events[i].prev_event_hash =
                IF i = 1 THEN start_hash ELSE events[i - 1].event_hash
    /\ \A i, j \in DOMAIN events : events[i].id = events[j].id => i = j

\* the log grew only at its end, each new event a valid descendant of the event
\* before it
AppendedDescendants(before, after) ==
    /\ Len(after) >= Len(before)
    /\ SubSeq(after, 1, Len(before)) = before
    /\ \A i \in (Len(before) + 1)..Len(after) :
          valid_descendant(after[i], IF i = 1 THEN None ELSE after[i - 1])

\* C39: the node's event log is a hash chain at any time: the i-th event has
\* seq_no i, the first event's prev_event_uid and prev_event_hash are the
\* project's id and start_hash, every later event's are the id and event_hash
\* of the event before it, no event id occurs twice, and validate_events
\* succeeds; and whatever is appended is a valid descendant of the event before.
C39_EventLogIsHashChain ==
    /\ [](HashChain(project.events) /\ validate_events(project.events))
    /\ [][AppendedDescendants(project.events, project'.events)]_vars

C39_Witness ==
    /\ adding.kind = "ended" /\ adding.result = SyftSuccess
    /\ Len(project.events) >= 2
    /\ project.events[1].creator_verify_key = OTHER_KEY
    /\ project.events[Len(project.events)].creator_verify_key = NODE_KEY

\* C40: every add_event call ends by returning a success or an error (or by
\* refusing an event already added), also while other nodes keep adding events
\* to the leader: the cycle of not-ready, sync, rebase, re-sign, retry is left
\* before the interpreter has to break it off.
C40_AddEventReturns ==
    adding.kind = "ended"
        => adding.result \in {SyftSuccess, SyftError,
                              Raise("EventAlreadyAddedException")}

====
